---- MODULE Spec2Model ----
(***************************************************************************)
(* A model of recipe-creator: the offline matching engine                  *)
(* (src/src/utils/recipeEngine.ts) and the LLM response pipeline           *)
(* (src/unnamed/part_003, imported by its test as ./llm).                  *)
(*                                                                         *)
(* Strings are sequences of one-character strings, so that trimming,       *)
(* lower-casing and substring search are computed, not assumed.            *)
(***************************************************************************)
EXTENDS Integers, Sequences, FiniteSets, TLC

VARIABLES
    \* generateRecipeOptions(recipes, pantryItems, preferences)
    recipes, pantryItems, preferences, options,
    \* normalizeRecipe(rawRecipe, index)
    rawRecipe, rawIndex, normalized,
    \* extractJsonFromText(rawText)
    rawText, extracted,
    \* generateRecipesWithLlm(input)
    pc, recipeCount, requests, payload, outcome, uuidCounter,
    \* missingIngredients(recipe, pantryItems) / pantryFitPercent(recipe, pantryItems)
    fitRecipe, fitPantry, missingResult, fitPercent,
    \* scaleIngredients(ingredients, currentServings, targetServings), there and back
    scaleIngs, currentServings, targetServings, scaled, scaledBack,
    \* the caller's objects: a call of the core on them, and what the caller
    \* does to the result
    heap, ownCall, ownResult, mutated,
    \* the state of App, the call of generateRecipesWithLlm it awaits and the
    \* number of HTTP requests issued so far
    baseRecipes, customRecipes, appPantry, appPreferences, apiKey, followUpPrompt,
    generatedRecipes, selectedRecipeId, statusMessage, errorMessage, isGenerating,
    conversation, inflight, httpRequests, idsIssued,
    \* buildSwapSuggestions(recipe, dietary, pantryItems)
    swapRecipe, swapDietary, swapPantry, swapResult,
    \* the aiSettings state of App, the item of localStorage that holds it, and
    \* whether App is mounted
    aiSettings, storedAiSettings, mounted

selVars  == <<recipes, pantryItems, preferences, options>>
normVars == <<rawRecipe, rawIndex, normalized>>
textVars == <<rawText, extracted>>
llmVars  == <<pc, recipeCount, requests, payload, outcome, uuidCounter>>
fitVars  == <<fitRecipe, fitPantry, missingResult, fitPercent>>
\* the variables of the parts added to the four above
scaleVars == <<scaleIngs, currentServings, targetServings, scaled, scaledBack>>
ownVars  == <<heap, ownCall, ownResult, mutated>>
appVars  == <<baseRecipes, customRecipes, appPantry, appPreferences, apiKey, followUpPrompt,
              generatedRecipes, selectedRecipeId, statusMessage, errorMessage, isGenerating,
              conversation, inflight, httpRequests, idsIssued>>
swapVars == <<swapRecipe, swapDietary, swapPantry, swapResult>>
settingsVars == <<aiSettings, storedAiSettings, mounted>>
moreVars == <<fitVars, scaleVars, ownVars, appVars, swapVars, settingsVars>>
vars     == <<selVars, normVars, textVars, llmVars, moreVars>>

(***************************************************************************)
(* Generic helpers on sequences (the Array.prototype methods).             *)
(***************************************************************************)
Min(a, b) == IF a <= b THEN a ELSE b
Max(a, b) == IF a >= b THEN a ELSE b

\* Array.prototype.includes
Includes(seq, x) == \E i \in 1..Len(seq) : seq[i] = x

\* Array.prototype.slice(0, n) for an integer n >= 0
Slice0(seq, n) == SubSeq(seq, 1, Min(n, Len(seq)))

\* String.prototype.includes: t occurs in s as a contiguous run
StrIncludes(s, t) ==
    \E i \in 0..(Len(s) - Len(t)) : SubSeq(s, i + 1, i + Len(t)) = t

(***************************************************************************)
(* Characters.                                                             *)
(***************************************************************************)
LowerLetters ==
    {"a","b","c","d","e","f","g","h","i","j","k","l","m",
     "n","o","p","q","r","s","t","u","v","w","x","y","z"}
Digits == {"0","1","2","3","4","5","6","7","8","9"}
\* the characters \s matches that the model uses: space and newline
Whitespace == {" ", "\n"}

\* String.prototype.toLowerCase, on the letters A to Z
ToLowerChar(c) ==
    LET upper == <<"A","B","C","D","E","F","G","H","I","J","K","L","M",
                   "N","O","P","Q","R","S","T","U","V","W","X","Y","Z">>
        lower == <<"a","b","c","d","e","f","g","h","i","j","k","l","m",
                   "n","o","p","q","r","s","t","u","v","w","x","y","z">>
    IN  IF \E i \in DOMAIN upper : upper[i] = c
        THEN lower[CHOOSE i \in DOMAIN upper : upper[i] = c]
        ELSE c

\* String.prototype.trim
RECURSIVE TrimLeft(_)
TrimLeft(s) ==
    IF s # <<>> /\ Head(s) \in Whitespace THEN TrimLeft(Tail(s)) ELSE s

RECURSIVE TrimRight(_)
TrimRight(s) ==
    IF s # <<>> /\ s[Len(s)] \in Whitespace
    THEN TrimRight(SubSeq(s, 1, Len(s) - 1))
    ELSE s

Trim(s) == TrimRight(TrimLeft(s))

\* .replace(/\s+/g, ' ')
RECURSIVE CollapseSpaces(_)
CollapseSpaces(s) ==
    IF s = <<>> THEN <<>>
    ELSE IF Head(s) \in Whitespace
         THEN <<" ">> \o CollapseSpaces(TrimLeft(s))
         ELSE <<Head(s)>> \o CollapseSpaces(Tail(s))

\* recipeEngine.ts normaliseText
normaliseText(value) ==
    LET lowered  == [i \in 1..Len(value) |-> ToLowerChar(value[i])]
        replaced == [i \in 1..Len(lowered) |->
                       IF lowered[i] \in LowerLetters \cup Digits \cup Whitespace \cup {"-"}
                       THEN lowered[i] ELSE " "]
    IN  Trim(CollapseSpaces(replaced))

\* a faulty variant: the boundary spaces are left out
ContainsSubstring(source, token) ==
    StrIncludes(normaliseText(source), normaliseText(token))

\* recipeEngine.ts containsToken
containsToken(source, token) ==
    LET normalizedSource == <<" ">> \o normaliseText(source) \o <<" ">>
        normalizedToken  == <<" ">> \o normaliseText(token) \o <<" ">>
    IN  StrIncludes(normalizedSource, normalizedToken)

(***************************************************************************)
(* Preference checks.                                                      *)
(***************************************************************************)
\* a faulty variant: vegetarian and vegan stand in for each other
DietaryEitherWay(recipe, requested) ==
    \A i \in 1..Len(requested) :
        IF requested[i] \in {"vegetarian", "vegan"}
        THEN Includes(recipe.dietaryTags, "vegetarian")
             \/ Includes(recipe.dietaryTags, "vegan")
        ELSE Includes(recipe.dietaryTags, requested[i])

dietarySatisfied(recipe, requested) ==
    IF Len(requested) = 0 THEN TRUE
    ELSE \A i \in 1..Len(requested) :
            IF requested[i] = "vegetarian"
            THEN Includes(recipe.dietaryTags, "vegetarian")
                 \/ Includes(recipe.dietaryTags, "vegan")
            ELSE Includes(recipe.dietaryTags, requested[i])

equipmentSatisfied(recipe, available) ==
    IF Len(available) = 0 THEN TRUE
    ELSE \A i \in 1..Len(recipe.equipment) : Includes(available, recipe.equipment[i])

cuisineSatisfied(recipe, cuisine) ==
    IF Trim(cuisine) = <<>> THEN TRUE
    ELSE StrIncludes(normaliseText(recipe.cuisine), normaliseText(cuisine))

\* a faulty variant: the avoided allergens are not consulted
AllergenIgnoresBlocked(recipe, blocked) == TRUE

allergenSatisfied(recipe, blocked) ==
    IF Len(blocked) = 0 THEN TRUE
    ELSE ~ \E i \in 1..Len(recipe.allergens) : Includes(blocked, recipe.allergens[i])

(***************************************************************************)
(* Pantry matcher.                                                         *)
(***************************************************************************)
hasIngredient(ingredientName, pantry) ==
    IF Len(pantry) = 0 THEN FALSE
    ELSE \E i \in 1..Len(pantry) :
            LET normalizedPantry     == normaliseText(pantry[i])
                normalizedIngredient == normaliseText(ingredientName)
            IN  containsToken(normalizedPantry, normalizedIngredient)
                \/ containsToken(normalizedIngredient, normalizedPantry)

missingIngredients(recipe, pantry) ==
    LET Missing(ingredient) == ~ hasIngredient(ingredient.name, pantry)
    IN  SelectSeq(recipe.ingredients, Missing)

(***************************************************************************)
(* scoreRecipe.  Scores are kept as integers in units of 1/30: the         *)
(* coverage term is a multiple of 100/total with total <= 3 ingredients    *)
(* and the time penalty a multiple of 1/5.                                 *)
(***************************************************************************)
scoreRecipe(recipe, pantry, prefs) ==
    LET ingredientTotal == Len(recipe.ingredients)
        missingTotal    == Len(missingIngredients(recipe, pantry))
        coverage100     == IF ingredientTotal = 0 THEN 0
                           ELSE ((ingredientTotal - missingTotal) * 3000) \div ingredientTotal
        timeMatch       == recipe.cookTimeMinutes <= prefs.maxCookTime
        cuisineMatch    == cuisineSatisfied(recipe, prefs.cuisine)
        dietaryMatch    == dietarySatisfied(recipe, prefs.dietary)
        equipmentMatch  == equipmentSatisfied(recipe, prefs.equipment)
    IN  [ recipe |-> recipe,
          score  |-> coverage100
                     + (IF timeMatch THEN 360
                        ELSE Max(-360, (prefs.maxCookTime - recipe.cookTimeMinutes) * 6))
                     + (IF cuisineMatch THEN 240 ELSE -120)
                     + (IF dietaryMatch THEN 300 ELSE -1500)
                     + (IF equipmentMatch THEN 240 ELSE -900),
          strictMatch |-> timeMatch /\ cuisineMatch /\ dietaryMatch /\ equipmentMatch ]

\* Array.prototype.sort((a, b) => b.score - a.score): stable, descending
RECURSIVE InsertByScore(_, _)
InsertByScore(sorted, entry) ==
    IF sorted = <<>> THEN <<entry>>
    ELSE IF Head(sorted).score >= entry.score
         THEN <<Head(sorted)>> \o InsertByScore(Tail(sorted), entry)
         ELSE <<entry>> \o sorted

\* a faulty variant: the entries are left in input order
Unsorted(entries) == entries

RECURSIVE SortByScore(_)
SortByScore(entries) ==
    IF entries = <<>> THEN <<>>
    ELSE InsertByScore(SortByScore(SubSeq(entries, 1, Len(entries) - 1)),
                       entries[Len(entries)])

\* a faulty variant of the backfill: the id of an entry is not looked up
RECURSIVE BackfillNoLookup(_, _)
BackfillNoLookup(selected, scored) ==
    IF scored = <<>> THEN selected
    ELSE BackfillNoLookup(IF Len(selected) >= 6 THEN selected
                          ELSE Append(selected, Head(scored).recipe),
                          Tail(scored))

\* the forEach of generateRecipeOptions: push entries whose id is not selected yet
RECURSIVE Backfill(_, _)
Backfill(selected, scored) ==
    IF scored = <<>> THEN selected
    ELSE LET entry == Head(scored)
             next  == IF Len(selected) >= 6 THEN selected
                      ELSE IF ~ \E i \in 1..Len(selected) : selected[i].id = entry.recipe.id
                           THEN Append(selected, entry.recipe)
                           ELSE selected
         IN  Backfill(next, Tail(scored))

AllergenSafe(corpus, prefs) ==
    LET Safe(recipe) == allergenSatisfied(recipe, prefs.allergensToAvoid)
    IN  SelectSeq(corpus, Safe)

Scored(corpus, pantry, prefs) ==
    LET safe == AllergenSafe(corpus, prefs)
    IN  SortByScore([i \in 1..Len(safe) |-> scoreRecipe(safe[i], pantry, prefs)])

\* a faulty variant: no small-pool fallback
GenerateWithoutFallback(corpus, pantry, prefs) ==
    LET scored       == Scored(corpus, pantry, prefs)
        Strict(entry) == entry.strictMatch
        strict       == Slice0(SelectSeq(scored, Strict), 6)
        selected0    == [i \in 1..Len(strict) |-> strict[i].recipe]
        selected     == IF Len(selected0) < 3 THEN Backfill(selected0, scored) ELSE selected0
    IN  Slice0(selected, 6)

generateRecipeOptions(corpus, pantry, prefs) ==
    LET allergenSafe == AllergenSafe(corpus, prefs)
        scored       == Scored(corpus, pantry, prefs)
        Strict(entry) == entry.strictMatch
        strict       == Slice0(SelectSeq(scored, Strict), 6)
        selected0    == [i \in 1..Len(strict) |-> strict[i].recipe]
        selected     == IF Len(selected0) < 3 THEN Backfill(selected0, scored) ELSE selected0
    IN  IF Len(selected) < 3
        THEN Slice0(allergenSafe, Min(3, Len(allergenSafe)))
        ELSE Slice0(selected, 6)

(***************************************************************************)
(* JavaScript values, as JSON.parse and the normalizers see them.          *)
(* A string value holds its characters (or, for a model reply, its         *)
(* lexemes); an object holds a function from its keys to values.           *)
(***************************************************************************)
JNull      == [t |-> "null"]
JUndefined == [t |-> "undefined"]
JBool(b)   == [t |-> "boolean", v |-> b]
JNum(n)    == [t |-> "number", fin |-> TRUE, v |-> n]
\* the non-finite numbers: v is 0 for NaN, 1 for Infinity, -1 for -Infinity
JNaN       == [t |-> "number", fin |-> FALSE, v |-> 0]
JInfinity  == [t |-> "number", fin |-> FALSE, v |-> 1]
JStr(s)    == [t |-> "string", v |-> s]
JArr(a)    == [t |-> "array", v |-> a]
JObj(f)    == [t |-> "object", v |-> f]

\* ToBoolean
Truthy(x) ==
    CASE x.t \in {"null", "undefined"} -> FALSE
      [] x.t = "boolean" -> x.v
      [] x.t = "number"  -> IF x.fin THEN x.v # 0 ELSE x.v # 0
      [] x.t = "string"  -> x.v # <<>>
      [] OTHER -> TRUE

\* a completion: a returned value, or a thrown error, named by its message
Ok(v)      == [ok |-> TRUE, value |-> v]
Throw(e)   == [ok |-> FALSE, error |-> e]

(***************************************************************************)
(* The field normalizer of the LLM pipeline.                               *)
(***************************************************************************)
UNIT_OPTIONS ==
    { <<"g">>,
      <<"k","g">>,
      <<"m","l">>,
      <<"l","i","t","r","e","s">>,
      <<"t","b","s","p">>,
      <<"t","s","p">>,
      <<"c","l","o","v","e">>,
      <<"w","h","o","l","e">>,
      <<"p","i","n","c","h">>,
      <<"s","l","i","c","e">>,
      <<"c","a","n">>,
      <<"c","u","p">> }
ALLERGEN_OPTIONS ==
    { <<"d","a","i","r","y">>,
      <<"e","g","g","s">>,
      <<"f","i","s","h">>,
      <<"g","l","u","t","e","n">>,
      <<"n","u","t","s">>,
      <<"s","h","e","l","l","f","i","s","h">>,
      <<"s","o","y">> }
DIETARY_OPTIONS ==
    { <<"v","e","g","e","t","a","r","i","a","n">>,
      <<"v","e","g","a","n">>,
      <<"g","l","u","t","e","n","-","f","r","e","e">> }
equipmentValues ==
    { <<"h","o","b">>,
      <<"o","v","e","n">>,
      <<"a","i","r","-","f","r","y","e","r">> }
difficultyValues ==
    { <<"E","a","s","y">>,
      <<"M","e","d","i","u","m">>,
      <<"H","a","r","d">> }

allowedUnitSet      == UNIT_OPTIONS
allowedDietarySet   == DIETARY_OPTIONS
allowedAllergenSet  == ALLERGEN_OPTIONS
allowedEquipmentSet == equipmentValues

\* Set.prototype.has / Array.prototype.includes on a set of strings: strict equality
HasString(set, x) == x.t = "string" /\ x.v \in set

\* candidate.key: undefined when the value has no such property
Get(x, key) ==
    IF x.t = "object" /\ key \in DOMAIN x.v THEN x.v[key] ELSE JUndefined

\* typeof x === 'object'
TypeofObject(x) == x.t \in {"object", "array", "null"}

normalizeString(value, fallback) ==
    IF value.t = "string" THEN Trim(value.v) ELSE fallback

DigitValue(c) ==
    CASE c = "0" -> 0 [] c = "1" -> 1 [] c = "2" -> 2 [] c = "3" -> 3 [] c = "4" -> 4
      [] c = "5" -> 5 [] c = "6" -> 6 [] c = "7" -> 7 [] c = "8" -> 8 [] OTHER -> 9

RECURSIVE DigitsValue(_)
DigitsValue(s) ==
    IF s = <<>> THEN 0
    ELSE 10 * DigitsValue(SubSeq(s, 1, Len(s) - 1)) + DigitValue(s[Len(s)])

AllDigits(s) == s # <<>> /\ \A i \in 1..Len(s) : s[i] \in Digits

\* Number(string), on white space, signs and decimal digits: white space is
\* trimmed, the empty string is 0, anything else that is no integer literal is NaN
ToNumber(s) ==
    LET t == Trim(s)
    IN  IF t = <<>> THEN JNum(0)
        ELSE IF AllDigits(t) THEN JNum(DigitsValue(t))
        ELSE IF Head(t) = "-" /\ AllDigits(Tail(t)) THEN JNum(0 - DigitsValue(Tail(t)))
        ELSE IF Head(t) = "+" /\ AllDigits(Tail(t)) THEN JNum(DigitsValue(Tail(t)))
        ELSE JNaN

\* a faulty variant: a number is taken whether it is finite or not
NormalizeNumberUnchecked(value, fallback) ==
    IF value.t = "number" THEN value.v
    ELSE IF value.t = "string" /\ ToNumber(value.v).fin THEN ToNumber(value.v).v
    ELSE fallback

\* normalizeNumber: the result is a finite number, here an integer
normalizeNumber(value, fallback) ==
    IF value.t = "number" /\ value.fin THEN value.v
    ELSE IF value.t = "string" /\ ToNumber(value.v).fin THEN ToNumber(value.v).v
    ELSE fallback

\* what a normalizer returns for an entry it drops (null), or keeps
Dropped == [kept |-> FALSE]
Kept(v) == [kept |-> TRUE, value |-> v]

\* .filter(Boolean) after .map(normalize)
KeptValues(results) ==
    LET IsKept(r) == r.kept
        kept == SelectSeq(results, IsKept)
    IN  [i \in 1..Len(kept) |-> kept[i].value]

\* a faulty variant: the quantity is not floored at 0
IngredientUnfloored(raw) ==
    IF ~ Truthy(raw) \/ ~ TypeofObject(raw) THEN Dropped
    ELSE LET name == normalizeString(Get(raw, "name"), <<>>)
         IN  IF name = <<>> THEN Dropped
             ELSE Kept([ name     |-> name,
                         quantity |-> normalizeNumber(Get(raw, "quantity"), 0),
                         unit     |-> IF HasString(allowedUnitSet, Get(raw, "unit"))
                                      THEN Get(raw, "unit").v ELSE <<"g">>,
                         optional |-> Truthy(Get(raw, "optional")),
                         notes    |-> normalizeString(Get(raw, "notes"), <<>>) ])

normalizeIngredient(raw) ==
    IF ~ Truthy(raw) \/ ~ TypeofObject(raw) THEN Dropped
    ELSE LET name == normalizeString(Get(raw, "name"), <<>>)
         IN  IF name = <<>> THEN Dropped
             ELSE Kept([ name     |-> name,
                         quantity |-> Max(0, normalizeNumber(Get(raw, "quantity"), 0)),
                         unit     |-> IF HasString(allowedUnitSet, Get(raw, "unit"))
                                      THEN Get(raw, "unit").v ELSE <<"g">>,
                         optional |-> Truthy(Get(raw, "optional")),
                         notes    |-> normalizeString(Get(raw, "notes"), <<>>) ])

normalizeStep(raw) ==
    IF ~ Truthy(raw) \/ ~ TypeofObject(raw) THEN Dropped
    ELSE LET text         == normalizeString(Get(raw, "text"), <<>>)
             timerMinutes == normalizeNumber(Get(raw, "timerMinutes"), 0)
             temperatureC == normalizeNumber(Get(raw, "temperatureC"), 0)
         IN  IF text = <<>> THEN Dropped
             ELSE Kept([ text         |-> text,
                         timerMinutes |-> IF timerMinutes > 0 THEN JNum(timerMinutes)
                                          ELSE JUndefined,
                         notes        |-> normalizeString(Get(raw, "notes"), <<>>),
                         temperatureC |-> IF temperatureC > 0 THEN JNum(temperatureC)
                                          ELSE JUndefined,
                         gasMark      |-> normalizeString(Get(raw, "gasMark"), <<>>) ])

\* Array.isArray(x) ? x.map(normalizeIngredient).filter(Boolean) : []
NormalizedIngredients(x) ==
    IF x.t = "array" THEN KeptValues([i \in 1..Len(x.v) |-> normalizeIngredient(x.v[i])])
    ELSE <<>>

\* Array.isArray(x) ? x.map(normalizeStep).filter(Boolean) : []
NormalizedSteps(x) ==
    IF x.t = "array" THEN KeptValues([i \in 1..Len(x.v) |-> normalizeStep(x.v[i])])
    ELSE <<>>

\* Array.isArray(x) ? x.filter((item) => allowed.has(item)) : otherwise
FilterAllowed(x, allowed, otherwise) ==
    IF x.t = "array"
    THEN LET IsAllowed(item) == HasString(allowed, item)
             kept == SelectSeq(x.v, IsAllowed)
         IN  [i \in 1..Len(kept) |-> kept[i].v]
    ELSE otherwise

\* Array.isArray(x) ? x.map((s) => normalizeString(s)).filter(Boolean) : []
NormalizedStrings(x) ==
    IF x.t = "array"
    THEN LET NonEmpty(str) == str # <<>>
         IN  SelectSeq([i \in 1..Len(x.v) |-> normalizeString(x.v[i], <<>>)], NonEmpty)
    ELSE <<>>

\* the decimal digits of a natural number, for `AI Recipe ${index + 1}`
RECURSIVE Decimal(_)
Decimal(n) ==
    LET digit == CHOOSE c \in Digits : DigitValue(c) = n % 10
    IN  IF n < 10 THEN <<digit>> ELSE Decimal(n \div 10) \o <<digit>>

PlaceholderIngredients ==
    << [name |-> <<"w","a","t","e","r">>, quantity |-> 500, unit |-> <<"m","l">>] >>

PlaceholderSteps ==
    << [text |-> <<"Prepare your ingredients and season to taste.">>],
       [text |-> <<"Cook until done and serve hot.">>] >>

\* normalizeRecipe; uuid stands for crypto.randomUUID().  Reading a property
\* of null or undefined throws a TypeError.
normalizeRecipe(raw, index, uuid) ==
    IF raw.t \in {"null", "undefined"} THEN Throw(<<"TypeError">>)
    ELSE
    LET ingredients == NormalizedIngredients(Get(raw, "ingredients"))
        steps       == NormalizedSteps(Get(raw, "steps"))
    IN  Ok([ id          |-> <<"llm-", uuid>>,
             title       |-> normalizeString(Get(raw, "title"),
                                <<"A","I"," ","R","e","c","i","p","e"," ">> \o Decimal(index + 1)),
             description |-> normalizeString(Get(raw, "description"), <<"AI-generated recipe.">>),
             cuisine     |-> normalizeString(Get(raw, "cuisine"), <<"F","u","s","i","o","n">>),
             difficulty  |-> IF HasString(difficultyValues, Get(raw, "difficulty"))
                             THEN Get(raw, "difficulty").v ELSE <<"E","a","s","y">>,
             cookTimeMinutes |-> Max(5, normalizeNumber(Get(raw, "cookTimeMinutes"), 30)),
             servings    |-> Max(1, normalizeNumber(Get(raw, "servings"), 4)),
             dietaryTags |-> FilterAllowed(Get(raw, "dietaryTags"), allowedDietarySet, <<>>),
             allergens   |-> FilterAllowed(Get(raw, "allergens"), allowedAllergenSet, <<>>),
             equipment   |-> FilterAllowed(Get(raw, "equipment"), allowedEquipmentSet,
                                           << <<"h","o","b">> >>),
             ingredients |-> IF Len(ingredients) > 0 THEN ingredients ELSE PlaceholderIngredients,
             steps       |-> IF Len(steps) > 0 THEN steps ELSE PlaceholderSteps,
             swapSuggestions |-> NormalizedStrings(Get(raw, "swapSuggestions")),
             tips        |-> NormalizedStrings(Get(raw, "tips")),
             source      |-> "llm" ])

(***************************************************************************)
(* Inputs of the matching engine: a pool of recipes (types.ts Recipe), of  *)
(* which a corpus is any sub-list, the pantries and the preferences.       *)
(***************************************************************************)
NumRecipes == 9

Italian == <<"I","t","a","l","i","a","n">>
Thai    == <<"T","h","a","i">>
Egg     == <<"e","g","g">>
Eggs    == <<"E","g","g","s">>
Rice    == <<"r","i","c","e">>
Tea     == <<"t","e","a">>
OatMilk == <<"O","a","t"," ","m","i","l","k">>

Ingredient(name, quantity, unit) == [name |-> name, quantity |-> quantity, unit |-> unit]

Recipe(id, cuisine, cook, tags, allergens, equipment, ingredients) ==
    [ id |-> id, cuisine |-> cuisine, cookTimeMinutes |-> cook, dietaryTags |-> tags,
      allergens |-> allergens, equipment |-> equipment, ingredients |-> ingredients ]

\* recipe 9 carries the id of recipe 2: a cookbook copy of a base recipe
PoolRecipe(k) ==
    CASE k = 1 -> Recipe("r1", Italian, 25, <<"vegetarian">>, <<"gluten">>, <<"hob">>,
                         <<Ingredient(Rice, 200, "g"), Ingredient(Egg, 2, "whole")>>)
      [] k = 2 -> Recipe("r2", Thai, 20, <<"vegan">>, <<"nuts">>, <<"hob">>,
                         <<Ingredient(OatMilk, 400, "ml")>>)
      [] k = 3 -> Recipe("r3", Italian, 50, <<>>, <<"dairy">>, <<"oven">>,
                         <<Ingredient(Egg, 1, "whole"), Ingredient(Rice, 30, "g"),
                           Ingredient(Tea, 1, "tsp")>>)
      [] k = 4 -> Recipe("r4", Italian, 30, <<"vegan">>, <<>>, <<"hob">>, <<>>)
      [] k = 5 -> Recipe("r5", Thai, 40, <<"vegetarian", "gluten-free">>, <<"eggs">>,
                         <<"hob", "oven">>, <<Ingredient(Eggs, 4, "whole")>>)
      [] k = 6 -> Recipe("r6", Italian, 15, <<"vegetarian">>, <<"dairy">>, <<"hob">>,
                         <<Ingredient(Rice, 12, "g")>>)
      [] k = 7 -> Recipe("r7", Thai, 35, <<>>, <<>>, <<"air-fryer">>,
                         <<Ingredient(Tea, 2, "tsp"), Ingredient(OatMilk, 5, "ml")>>)
      [] k = 8 -> Recipe("r8", Italian, 45, <<"vegan">>, <<"soy">>, <<"hob">>,
                         <<Ingredient(Rice, 60, "g"), Ingredient(Tea, 1, "pinch")>>)
      [] k = 9 -> Recipe("r2", Italian, 10, <<"vegetarian">>, <<>>, <<"hob">>,
                         <<Ingredient(Egg, 3, "whole")>>)
      [] OTHER -> Recipe("r10", Thai, 60, <<"gluten-free">>, <<"fish">>, <<"oven">>,
                         <<Ingredient(Rice, 100, "g")>>)

\* the sub-list of the pool with the indexes in chosen, in pool order
Corpus(chosen) ==
    LET Chosen(k) == k \in chosen
        picked    == SelectSeq([k \in 1..NumRecipes |-> k], Chosen)
    IN  [i \in 1..Len(picked) |-> PoolRecipe(picked[i])]

PantryChoices == { <<>>, << <<"R","i","c","e","!">>, <<" ","e","g","g"," ">> >> }

PreferenceChoices ==
    { [ servings |-> 4, maxCookTime |-> 45, cuisine |-> <<>>, dietary |-> <<>>,
        allergensToAvoid |-> <<>>, equipment |-> <<>> ],
      [ servings |-> 2, maxCookTime |-> 30, cuisine |-> <<"i","t","a">>,
        dietary |-> <<"vegetarian">>, allergensToAvoid |-> <<"gluten">>,
        equipment |-> <<"hob">> ],
      [ servings |-> 4, maxCookTime |-> 45, cuisine |-> <<" ">>, dietary |-> <<>>,
        allergensToAvoid |-> <<"dairy", "nuts", "eggs", "gluten", "soy">>,
        equipment |-> <<"hob", "oven", "air-fryer">> ],
      [ servings |-> 2, maxCookTime |-> 40, cuisine |-> <<"T","H","A","I">>,
        dietary |-> <<"vegan">>, allergensToAvoid |-> <<>>,
        equipment |-> <<"hob", "oven">> ] }

(***************************************************************************)
(* Inputs of the field normalizer: what JSON.parse can put in the model's  *)
(* recipes array.  A property that is absent reads as undefined.           *)
(***************************************************************************)
MaxIndex == 1

EmptyObject == [k \in {} |-> JUndefined]

RawIngredient(name, quantity, unit) ==
    JObj([ name |-> name, quantity |-> quantity, unit |-> unit,
           optional |-> JBool(FALSE), notes |-> JStr(<<>>) ])

RawStep(text, timerMinutes, temperatureC) ==
    JObj([ text |-> text, timerMinutes |-> timerMinutes, notes |-> JStr(<<" ">>),
           temperatureC |-> temperatureC, gasMark |-> JStr(<<"4">>) ])

Boil == <<"B","o","i","l"," ">>

IngredientsChoices ==
    { JUndefined,
      JStr(Egg),
      JArr(<<>>),
      JArr(<< RawIngredient(JStr(Rice), JNum(200), JStr(<<"g">>)) >>),
      JArr(<< JNull, JNum(3), RawIngredient(JStr(<<" ">>), JNum(1), JStr(<<"g">>)), JArr(<<>>) >>),
      JArr(<< RawIngredient(JStr(<<" ","e","g","g"," ">>), JStr(<<"-","3">>), JStr(<<"o","z">>)),
              RawIngredient(JStr(Tea), JNum(-5), JStr(<<" ","m","l">>)),
              JObj([name |-> JStr(OatMilk), quantity |-> JInfinity, extra |-> JNum(1)]) >>),
      JArr(<< RawIngredient(JStr(Rice), JStr(<<" ","1","2"," ">>), JNum(7)),
              RawIngredient(JNum(5), JNum(1), JStr(<<"m","l">>)) >>) }

StepsChoices ==
    { JUndefined,
      JArr(<<>>),
      JArr(<< JObj([text |-> JStr(Boil)]) >>),
      JArr(<< RawStep(JStr(<<" ", "\n">>), JNum(5), JNum(5)), JNull, JNum(2) >>),
      JArr(<< RawStep(JStr(Boil), JNum(0), JNum(-10)), RawStep(JStr(<<" ">>), JNum(5), JNum(5)),
              JNull, JStr(Boil) >>),
      JArr(<< RawStep(JStr(Boil), JNum(20), JStr(<<"1","8","0">>)),
              RawStep(JStr(Tea), JStr(<<"x">>), JNaN) >>) }

EquipmentChoices ==
    { JUndefined, JArr(<<>>), JStr(<<"o","v","e","n">>),
      JArr(<< JStr(<<"g","r","i","l","l">>), JStr(<<"H","o","b">>) >>),
      JArr(<< JStr(<<"h","o","b">>), JStr(<<"g","r","i","l","l">>), JNum(1) >>) }

\* the dietary tags and the allergens of a raw recipe
TagChoices ==
    { <<JUndefined, JUndefined>>,
      << JArr(<< JStr(<<"v","e","g","a","n">>), JStr(<<"k","e","t","o">>), JNull >>),
         JArr(<< JStr(<<"p","o","l","l","e","n">>), JStr(<<"n","u","t","s">>) >>) >> }

DifficultyChoices ==
    { JUndefined, JStr(<<"H","a","r","d">>), JStr(<<"h","a","r","d">>) }

TitleChoices ==
    { JUndefined, JStr(<<" ","T","e","a"," ">>), JStr(<<" ">>), JStr(<<>>), JNum(7) }

\* the cook time and the servings of a raw recipe
NumberChoices ==
    { <<JUndefined, JUndefined>>, <<JNum(0), JNum(-2)>>, <<JStr(<<"1","2">>), JStr(<<"x">>)>>,
      <<JNaN, JInfinity>>, <<JNull, JBool(TRUE)>>, <<JStr(<<>>), JStr(<<" ">>)>>,
      <<JNum(45), JNum(6)>>, <<JStr(<<"-","3">>), JStr(<<" ","8"," ">>)>> }

RawObjects ==
    { JObj([ title |-> title, description |-> title, cuisine |-> title,
             difficulty |-> difficulty,
             cookTimeMinutes |-> numbers[1], servings |-> numbers[2],
             dietaryTags |-> tags[1], allergens |-> tags[2], equipment |-> equipment,
             ingredients |-> ingredients, steps |-> steps,
             swapSuggestions |-> JArr(<<JStr(<<" ">>), title, JStr(Tea)>>),
             tips |-> JUndefined, calories |-> JNum(5) ]) :
        title \in TitleChoices, difficulty \in DifficultyChoices, numbers \in NumberChoices,
        tags \in TagChoices, equipment \in EquipmentChoices,
        ingredients \in IngredientsChoices, steps \in StepsChoices }

\* elements that are no objects with fields, and an object without any
RawNonRecipes ==
    { JNull, JNum(3), JStr(Rice), JBool(TRUE), JObj(EmptyObject),
      JArr(<< RawIngredient(JStr(Rice), JNum(1), JStr(<<"g">>)) >>) }

RawRecipeChoices == RawObjects \cup RawNonRecipes

(***************************************************************************)
(* Model replies are sequences of lexemes: the fence ```, the tag json,    *)
(* braces, the literals 1 and null, prose words, white space, and lexemes  *)
(* that stand for the member list written between an object's braces.      *)
(***************************************************************************)
\* the lexeme of three backticks
Fence    == "FENCE"
NL       == "\n"
JsonTags == {"json", "JSON"}

MemberTokens == {"a:1", "sum,recipes:[]", "sum", "sum,recipes:str",
                 "sum,recipes:[A,B]", "recipes:[A,B,C,A,B,C,A]", "recipes:[A,null]",
                 "sum:3,recipes:[B]"}

\* the digits 1...1 (n of them) read as a decimal number
RECURSIVE Repunit(_)
Repunit(n) == IF n = 0 THEN 0 ELSE 10 * Repunit(n - 1) + 1

StripWhitespace(text) ==
    LET NotSpace(tok) == tok \notin Whitespace
    IN  SelectSeq(text, NotSpace)

RawA ==
    JObj([ title |-> JStr(<<" ","T","e","a"," ">>),
           ingredients |-> JArr(<< RawIngredient(JStr(Rice), JNum(200), JStr(<<"g">>)) >>),
           steps |-> JArr(<< JObj([text |-> JStr(Boil)]) >>) ])
RawB == JObj(EmptyObject)
RawC == JNum(3)

SummaryOk == JStr(<<"o","k">>)

\* the members a member lexeme stands for
ReplyMembers(tok) ==
    CASE tok = "a:1"               -> [a |-> JNum(1)]
      [] tok = "sum,recipes:[]"    -> [assistantSummary |-> SummaryOk, recipes |-> JArr(<<>>)]
      [] tok = "sum"               -> [assistantSummary |-> SummaryOk]
      [] tok = "sum,recipes:str"   -> [assistantSummary |-> SummaryOk, recipes |-> JStr(Rice)]
      [] tok = "sum,recipes:[A,B]" -> [assistantSummary |-> SummaryOk,
                                       recipes |-> JArr(<<RawA, RawB>>)]
      [] tok = "recipes:[A,B,C,A,B,C,A]" ->
             [recipes |-> JArr(<<RawA, RawB, RawC, RawA, RawB, RawC, RawA>>)]
      [] tok = "recipes:[A,null]"  -> [recipes |-> JArr(<<RawA, JNull>>)]
      [] OTHER                     -> [assistantSummary |-> JNum(3), recipes |-> JArr(<<RawB>>)]

\* JSON.parse, on the lexemes
ParseJson(text) ==
    LET t == Trim(text)
    IN  IF t = <<>> THEN Throw(<<"SyntaxError">>)
        ELSE IF \A i \in 1..Len(t) : t[i] = "1" THEN Ok(JNum(Repunit(Len(t))))
        ELSE IF t = <<"null">> THEN Ok(JNull)
        ELSE IF Len(t) >= 2 /\ t[1] = "{" /\ t[Len(t)] = "}"
             THEN LET inner == StripWhitespace(SubSeq(t, 2, Len(t) - 1))
                  IN  IF inner = <<>> THEN Ok(JObj(EmptyObject))
                      ELSE IF Len(inner) = 1 /\ inner[1] \in MemberTokens
                           THEN Ok(JObj(ReplyMembers(inner[1])))
                           ELSE Throw(<<"SyntaxError">>)
        ELSE Throw(<<"SyntaxError">>)

FenceIndexes(text) == {i \in 1..Len(text) : text[i] = Fence}

SetMin(S) == CHOOSE x \in S : \A y \in S : x <= y
SetMax(S) == CHOOSE x \in S : \A y \in S : x >= y

\* a faulty variant of the match: the json tag is left in the captured group
CodeFenceMatchKeepsTag(text) ==
    LET fences == FenceIndexes(text)
    IN  IF Cardinality(fences) < 2 THEN [matched |-> FALSE, group |-> <<>>]
        ELSE LET open  == SetMin(fences)
                 close == SetMin({i \in fences : i > open})
             IN  [matched |-> TRUE, group |-> Trim(SubSeq(text, open + 1, close - 1))]

\* rawText.match(/```(?:json)?\s*([\s\S]*?)\s*```/i): the leftmost fence, an
\* optional tag, white space, the shortest run up to white space and a fence
CodeFenceMatch(text) ==
    LET fences == FenceIndexes(text)
    IN  IF Cardinality(fences) < 2 THEN [matched |-> FALSE, group |-> <<>>]
        ELSE LET open     == SetMin(fences)
                 afterTag == IF text[open + 1] \in JsonTags THEN open + 2 ELSE open + 1
                 start    == SetMin({i \in afterTag..Len(text) : text[i] \notin Whitespace})
                 close    == SetMin({i \in fences : i >= start})
             IN  [matched |-> TRUE,
                  group   |-> TrimRight(SubSeq(text, start, close - 1))]

\* rawText.slice(rawText.indexOf('{'), rawText.lastIndexOf('}') + 1), when
\* start >= 0 && end > start
BraceSlice(text) ==
    LET opens  == {i \in 1..Len(text) : text[i] = "{"}
        closes == {i \in 1..Len(text) : text[i] = "}"}
    IN  IF opens # {} /\ closes # {} /\ SetMax(closes) > SetMin(opens)
        THEN [found |-> TRUE, text |-> SubSeq(text, SetMin(opens), SetMax(closes))]
        ELSE [found |-> FALSE, text |-> <<>>]

extractJsonFromText(text) ==
    LET direct == ParseJson(text)
        fence  == CodeFenceMatch(text)
        braces == BraceSlice(text)
    IN  IF direct.ok /\ Truthy(direct.value) THEN direct
        ELSE IF fence.matched /\ fence.group # <<>>
             THEN ParseJson(fence.group)
        ELSE IF braces.found THEN ParseJson(braces.text)
        ELSE Throw(<<"Model response did not include JSON.">>)

(***************************************************************************)
(* Inputs of the response extractor: every text of at most MaxTextLen      *)
(* lexemes, and the longer texts that wrap an object in prose and a fence. *)
(***************************************************************************)
MaxTextLen == 5

TextAlphabet == {Fence, "json", "{", "}", "1", "null", "x"}

ShortTexts == UNION {[1..n -> TextAlphabet] : n \in 0..MaxTextLen}

ProseChoices == { <<>>, <<"x">>, <<"x", NL>>, <<NL, "x", "json">> }
FenceTagChoices == { <<>>, <<"json">>, <<"JSON">> }
ObjectTexts ==
    { <<"{", "}">>, <<"{", "a:1", "}">>, <<"{", NL, "sum,recipes:[]", NL, "}">> }

FencedTexts ==
    { pre \o <<Fence>> \o tag \o ws \o object \o ws \o <<Fence>> \o post :
        pre \in ProseChoices, tag \in FenceTagChoices, ws \in {<<>>, <<NL>>},
        object \in ObjectTexts, post \in ProseChoices }

NotReturned == [returned |-> FALSE, value |-> <<>>]
Returned(v) == [returned |-> TRUE, value |-> v]

(***************************************************************************)
(* Idle values of the state of the parts a specification does not run.     *)
(***************************************************************************)
SelIdle ==
    /\ recipes = <<>> /\ pantryItems = <<>>
    /\ preferences = CHOOSE p \in PreferenceChoices : p.maxCookTime = 30
    /\ options = NotReturned

NormIdle == rawRecipe = <<>> /\ rawIndex = 0 /\ normalized = NotReturned
TextIdle == rawText = <<>> /\ extracted = NotReturned
LlmIdle ==
    /\ pc = "idle" /\ recipeCount = 0 /\ requests = <<>>
    /\ payload = NotReturned /\ outcome = NotReturned /\ uuidCounter = 0
FitIdle ==
    /\ fitRecipe = [ingredients |-> <<>>] /\ fitPantry = <<>>
    /\ missingResult = NotReturned /\ fitPercent = NotReturned
ScaleIdle ==
    /\ scaleIngs = <<>> /\ currentServings = 0 /\ targetServings = 0
    /\ scaled = NotReturned /\ scaledBack = NotReturned
NoCall == [name |-> "none"]
OwnIdle ==
    /\ heap = <<>> /\ ownCall = NoCall /\ ownResult = NotReturned /\ mutated = FALSE
NullId == "null"
NoneInFlight == [kind |-> "none"]
AppIdle ==
    /\ baseRecipes = <<>> /\ customRecipes = <<>> /\ appPantry = <<>>
    /\ appPreferences = <<>> /\ apiKey = <<>> /\ followUpPrompt = <<>>
    /\ generatedRecipes = <<>> /\ selectedRecipeId = NullId
    /\ statusMessage = <<>> /\ errorMessage = <<>> /\ isGenerating = FALSE
    /\ conversation = <<>> /\ inflight = NoneInFlight /\ httpRequests = 0 /\ idsIssued = 0
SwapIdle ==
    /\ swapRecipe = [ingredients |-> <<>>, swapSuggestions |-> <<>>]
    /\ swapDietary = <<>> /\ swapPantry = <<>> /\ swapResult = NotReturned
defaultAiSettings == [apiKey |-> <<>>, model |-> "gpt-4.1-mini", rememberKey |-> FALSE]
NoItem == [present |-> FALSE]
SettingsIdle ==
    aiSettings = defaultAiSettings /\ storedAiSettings = NoItem /\ mounted = FALSE
MoreIdle == FitIdle /\ ScaleIdle /\ OwnIdle /\ AppIdle /\ SwapIdle /\ SettingsIdle

(***************************************************************************)
(* The matching engine: one call of generateRecipeOptions.                 *)
(***************************************************************************)
SelInit ==
    /\ \E chosen \in SUBSET (1..NumRecipes) : recipes = Corpus(chosen)
    /\ pantryItems \in PantryChoices
    /\ preferences \in PreferenceChoices
    /\ options = NotReturned

GenerateOptions ==
    /\ ~ options.returned
    /\ options' = Returned(generateRecipeOptions(recipes, pantryItems, preferences))
    /\ UNCHANGED <<recipes, pantryItems, preferences>>

SelNext == GenerateOptions /\ UNCHANGED <<normVars, textVars, llmVars, moreVars>>

SelectInit == SelInit /\ NormIdle /\ TextIdle /\ LlmIdle /\ MoreIdle

SpecSelect == SelectInit /\ [][SelNext]_vars

\* what the claims about the result speak of, stated without the engine's helpers
ContainsAvoided(recipe) ==
    \E i \in 1..Len(recipe.allergens) :
        \E j \in 1..Len(preferences.allergensToAvoid) :
            recipe.allergens[i] = preferences.allergensToAvoid[j]

SafeCount == Cardinality({i \in 1..Len(recipes) : ~ ContainsAvoided(recipes[i])})

DistinctIds(list) ==
    \A i, j \in 1..Len(list) : list[i].id = list[j].id => i = j

StrictCount ==
    Cardinality({i \in 1..Len(recipes) :
                    /\ ~ ContainsAvoided(recipes[i])
                    /\ scoreRecipe(recipes[i], pantryItems, preferences).strictMatch})

\* C1: a corpus with pairwise distinct ids and at least 3 allergen-safe recipes
\* yields at least 3 and at most 6 recipes, no two of them with the same id.
C1_ThreeToSixUnique ==
    (options.returned /\ DistinctIds(recipes) /\ SafeCount >= 3)
        => /\ Len(options.value) >= 3
           /\ Len(options.value) <= 6
           /\ DistinctIds(options.value)

\* C1 witnesses: more than 6 safe recipes with distinct ids are cut to 6, and a
\* corpus with fewer than 3 strict matches is backfilled.
C1_Witness ==
    /\ options.returned /\ DistinctIds(recipes) /\ SafeCount >= 7
    /\ Len(options.value) = 6

\* C2: no returned recipe contains an avoided allergen.
C2_NoAvoidedAllergen ==
    options.returned =>
        \A i \in 1..Len(options.value) : ~ ContainsAvoided(options.value[i])

\* C2 witness: a recipe was excluded for its allergen although it scores higher
\* than every returned recipe, in a result produced by backfilling.
C2_Witness ==
    /\ options.returned /\ Len(options.value) >= 3 /\ StrictCount < 3
    /\ \E k \in 1..Len(recipes) :
          /\ ContainsAvoided(recipes[k])
          /\ \A i \in 1..Len(options.value) :
                scoreRecipe(recipes[k], pantryItems, preferences).score
                  > scoreRecipe(options.value[i], pantryItems, preferences).score

\* C3: the result has at least min(3, p) and at most 6 recipes, p the number of
\* allergen-safe recipes of the corpus, duplicate ids or not.
C3_MinThreeOrPool ==
    options.returned =>
        /\ Len(options.value) >= Min(3, SafeCount)
        /\ Len(options.value) <= 6

\* C3 witness: a pool of one or two safe recipes, none a strict match, is returned whole.
C3_Witness ==
    /\ options.returned /\ SafeCount \in {1, 2} /\ StrictCount = 0
    /\ Len(options.value) = SafeCount

\* C3 second witness: ids repeat, the backfill finds fewer than 3 ids, 3 are returned
C3_WitnessDuplicateIds ==
    /\ options.returned /\ SafeCount >= 3 /\ ~ DistinctIds(options.value)
    /\ Len(options.value) = 3

(***************************************************************************)
(* The field normalizer: one call of normalizeRecipe.                      *)
(***************************************************************************)
NormInit ==
    /\ rawRecipe \in RawRecipeChoices
    /\ rawIndex \in 0..MaxIndex
    /\ normalized = NotReturned

NormalizeRecipe ==
    /\ ~ normalized.returned
    /\ uuidCounter' = uuidCounter + 1
    /\ normalized' = Returned(normalizeRecipe(rawRecipe, rawIndex, uuidCounter'))
    /\ UNCHANGED <<rawRecipe, rawIndex>>

NormNext ==
    NormalizeRecipe
        /\ UNCHANGED <<selVars, textVars, pc, recipeCount, requests, payload, outcome, moreVars>>

NormalizeInit == SelIdle /\ NormInit /\ TextIdle /\ LlmIdle /\ MoreIdle

SpecNormalize == NormalizeInit /\ [][NormNext]_vars

\* C4: normalizeRecipe returns a recipe for every element a reply can hold,
\* null, numbers, strings and arrays included.
C4_NormalizeNeverThrows ==
    normalized.returned => normalized.value.ok

AbsentOrPositive(x) == x.t = "undefined" \/ (x.t = "number" /\ x.fin /\ x.v > 0)

CanonicalShape(recipe) ==
    /\ Len(recipe.ingredients) > 0
    /\ Len(recipe.steps) > 0
    /\ \A i \in 1..Len(recipe.ingredients) :
          /\ Len(recipe.ingredients[i].name) > 0
          /\ recipe.ingredients[i].quantity >= 0
          /\ recipe.ingredients[i].unit \in UNIT_OPTIONS
    /\ \A i \in 1..Len(recipe.steps) :
          /\ Len(recipe.steps[i].text) > 0
          /\ "timerMinutes" \in DOMAIN recipe.steps[i]
                => AbsentOrPositive(recipe.steps[i].timerMinutes)
          /\ "temperatureC" \in DOMAIN recipe.steps[i]
                => AbsentOrPositive(recipe.steps[i].temperatureC)
    /\ recipe.difficulty \in difficultyValues
    /\ \A i \in 1..Len(recipe.dietaryTags) : recipe.dietaryTags[i] \in DIETARY_OPTIONS
    /\ \A i \in 1..Len(recipe.allergens) : recipe.allergens[i] \in ALLERGEN_OPTIONS
    /\ \A i \in 1..Len(recipe.equipment) : recipe.equipment[i] \in equipmentValues

\* C5: every recipe normalizeRecipe returns has non-empty ingredients and steps,
\* named ingredients with quantity >= 0 and an allowed unit, steps with text and
\* a timer and temperature that are absent or > 0, and enum fields within their sets.
C5_CanonicalShape ==
    (normalized.returned /\ normalized.value.ok) => CanonicalShape(normalized.value.value)

\* C5 witness: a negative quantity and an unknown unit were repaired, entries were
\* dropped from the enum lists, and the steps, none surviving, were replaced.
C5_Witness ==
    /\ normalized.returned /\ normalized.value.ok
    /\ normalized.value.value.steps = PlaceholderSteps
    /\ Get(rawRecipe, "steps").t = "array" /\ Len(Get(rawRecipe, "steps").v) > 0
    /\ \E i \in 1..Len(normalized.value.value.ingredients) :
          /\ normalized.value.value.ingredients[i].quantity = 0
          /\ normalized.value.value.ingredients[i].unit = <<"g">>
    /\ Get(rawRecipe, "ingredients").t = "array"
    /\ \E i \in 1..Len(Get(rawRecipe, "ingredients").v) :
          Get(Get(rawRecipe, "ingredients").v[i], "quantity") = JNum(-5)
    /\ Len(normalized.value.value.equipment) = 1
    /\ Get(rawRecipe, "equipment").t = "array"
    /\ Len(Get(rawRecipe, "equipment").v) > 1

(***************************************************************************)
(* The response extractor: one call of extractJsonFromText.                *)
(***************************************************************************)
TextInit ==
    /\ rawText \in ShortTexts \cup FencedTexts
    /\ extracted = NotReturned

ExtractJson ==
    /\ ~ extracted.returned
    /\ extracted' = Returned(extractJsonFromText(rawText))
    /\ UNCHANGED rawText

TextNext == ExtractJson /\ UNCHANGED <<selVars, normVars, llmVars, moreVars>>

ExtractInit == SelIdle /\ NormIdle /\ TextInit /\ LlmIdle /\ MoreIdle

SpecExtract == ExtractInit /\ [][TextNext]_vars

\* C8: extraction fails only if all three strategies fail; in particular a text
\* whose fenced block does not parse but whose part from the first { to the
\* last } does parse is extracted successfully.
C8_FailsOnlyIfAllFail ==
    ( /\ extracted.returned
      /\ CodeFenceMatch(rawText).matched
      /\ CodeFenceMatch(rawText).group # <<>>
      /\ ~ ParseJson(CodeFenceMatch(rawText).group).ok
      /\ BraceSlice(rawText).found
      /\ ParseJson(BraceSlice(rawText).text).ok )
        => extracted.value.ok

ProseTokens == {"x", "json", NL, " "}
IsProse(text) == \A i \in 1..Len(text) : text[i] \in ProseTokens
NoBraces(text) == \A i \in 1..Len(text) : text[i] \notin {"{", "}"}

\* what lies between two fences, without the tag
FenceBody(text, i, j) ==
    LET body == SubSeq(text, i + 1, j - 1)
    IN  IF body # <<>> /\ Head(body) \in JsonTags THEN Tail(body) ELSE body

\* text is prose, a fence at i, a JSON object, a fence at j, prose
IsFencedObject(text, i, j) ==
    /\ i < j /\ text[i] = Fence /\ text[j] = Fence
    /\ IsProse(SubSeq(text, 1, i - 1))
    /\ IsProse(SubSeq(text, j + 1, Len(text)))
    /\ ParseJson(FenceBody(text, i, j)).ok
    /\ ParseJson(FenceBody(text, i, j)).value.t = "object"

\* C9, first part: from prose, a fenced JSON object J and prose, extraction
\* returns J, as it does from the bare text of J.
C9_FencedObjectExtracted ==
    extracted.returned =>
        \A i, j \in 1..Len(rawText) :
            IsFencedObject(rawText, i, j) =>
                /\ extracted.value = ParseJson(FenceBody(rawText, i, j))
                /\ extractJsonFromText(Trim(FenceBody(rawText, i, j))) = extracted.value

\* C9 as claimed: the first part, and extraction fails for every text without braces.
C9_NoBracesAlwaysFails ==
    /\ C9_FencedObjectExtracted
    /\ (extracted.returned /\ NoBraces(rawText)) => ~ extracted.value.ok

\* C9 as amended: the first part, and extraction fails for every text without
\* braces that is not JSON as a whole and holds no fenced block.
C9_NoBracesNoJsonFails ==
    /\ C9_FencedObjectExtracted
    /\ ( /\ extracted.returned /\ NoBraces(rawText)
         /\ ~ ParseJson(rawText).ok
         /\ Cardinality(FenceIndexes(rawText)) < 2 )
          => ~ extracted.value.ok

\* C9 witness: prose, a fence tagged json around an object with members, prose.
C9_Witness ==
    /\ extracted.returned /\ extracted.value.ok
    /\ \E i, j \in 1..Len(rawText) :
          /\ IsFencedObject(rawText, i, j)
          /\ i > 1 /\ j < Len(rawText) /\ rawText[i + 1] = "json"
          /\ extracted.value.value = JObj(ReplyMembers("a:1"))

\* C9 second witness: a text without braces and without JSON fails
C9_WitnessNoBraces ==
    /\ extracted.returned /\ NoBraces(rawText) /\ Len(rawText) > 1
    /\ extracted.value = Throw(<<"Model response did not include JSON.">>)

(***************************************************************************)
(* The LLM orchestration: one call of generateRecipesWithLlm.  A request   *)
(* in flight is an entry of requests without a response; an HTTP exchange  *)
(* ends with fetch rejecting or with a status and a body.                  *)
(***************************************************************************)
MaxRecipeCount == 8

RecipeCounts == (0 - 2)..MaxRecipeCount

BodySliceLimit == 350

NetworkError == [kind |-> "rejected"]

\* a Response: response.ok is true for the statuses 200..299
HttpResponse(status, body) ==
    [kind |-> "response", ok |-> status \in 200..299, status |-> status, body |-> body]

\* x?.[0]
Index0(x) == IF x.t = "array" /\ Len(x.v) > 0 THEN x.v[1] ELSE JUndefined

\* textChunks.join('\n')
RECURSIVE JoinLines(_)
JoinLines(chunks) ==
    IF Len(chunks) = 1 THEN chunks[1]
    ELSE chunks[1] \o <<NL>> \o JoinLines(Tail(chunks))

readContentFromResponse(responseJson) ==
    IF ~ Truthy(responseJson) \/ ~ TypeofObject(responseJson)
    THEN Throw(<<"Unexpected API response shape.">>)
    ELSE LET output_text    == Get(responseJson, "output_text")
             messageContent ==
                 Get(Get(Index0(Get(responseJson, "choices")), "message"), "content")
             ChunkOf(entry) ==
                 IF Truthy(entry) /\ TypeofObject(entry)
                 THEN normalizeString(Get(entry, "text"), <<>>) ELSE <<>>
             NonEmpty(chunk) == chunk # <<>>
             textChunks ==
                 IF messageContent.t = "array"
                 THEN SelectSeq([i \in 1..Len(messageContent.v) |-> ChunkOf(messageContent.v[i])],
                                NonEmpty)
                 ELSE <<>>
         IN  IF output_text.t = "string" /\ Trim(output_text.v) # <<>>
             THEN Ok(output_text.v)
             ELSE IF messageContent.t = "string" /\ Trim(messageContent.v) # <<>>
             THEN Ok(messageContent.v)
             ELSE IF Len(textChunks) > 0 THEN Ok(JoinLines(textChunks))
             ELSE Throw(<<"No model message content found.">>)

\* a faulty variant: the schema is attached to every request
BuildRequestBodyAlwaysSchema(count, withSchema) ==
    [ model |-> "model", temperature |-> "creativity",
      messages |-> <<"systemPrompt", <<"Create", Max(1, Min(6, count))>> >>,
      response_format |-> "json_schema" ]

\* buildRequestBody, for an input with the given recipeCount
buildRequestBody(count, withSchema) ==
    LET request == [ model |-> "model", temperature |-> "creativity",
                     messages |-> <<"systemPrompt", <<"Create", Max(1, Min(6, count))>> >> ]
    IN  IF withSchema THEN request @@ [response_format |-> "json_schema"] ELSE request

\* JSON.parse(responseBody), on the lexemes of a body: an envelope lexeme is
\* followed by the lexemes of the model's reply
ParseResponseBody(body) ==
    IF body = <<>> THEN Throw(<<"SyntaxError">>)
    ELSE IF body = <<"null">> THEN Ok(JNull)
    ELSE IF body = <<"{", "}">> THEN Ok(JObj(EmptyObject))
    ELSE IF body = <<"choices:[]">> THEN Ok(JObj([choices |-> JArr(<<>>)]))
    ELSE IF Head(body) = "content:"
         THEN Ok(JObj([choices |->
                  JArr(<< JObj([message |-> JObj([content |-> JStr(Tail(body))])]) >>)]))
    ELSE IF Head(body) = "output_text:"
         THEN Ok(JObj([output_text |-> JStr(Tail(body)), choices |-> JNull]))
    ELSE IF Head(body) = "parts:"
         THEN Ok(JObj([choices |->
                  JArr(<< JObj([message |-> JObj([content |->
                      JArr(<<JNull>> \o [i \in 1..(Len(body) - 1) |->
                                            JObj([text |-> JStr(<<body[i + 1]>>)])])])]) >>)]))
    ELSE Throw(<<"SyntaxError">>)

\* a faulty variant: the message carries the whole response body
CallModelWholeBody(response) ==
    IF response.kind = "rejected" THEN Throw(<<"Failed to fetch">>)
    ELSE IF ~ response.ok
    THEN Throw(<<"LLM request failed (">> \o Decimal(response.status) \o <<"): ">>
               \o response.body)
    ELSE LET parsed == ParseResponseBody(response.body)
         IN  IF parsed.ok THEN readContentFromResponse(parsed.value) ELSE parsed

\* callModel, from the end of the HTTP exchange on
callModel(response) ==
    IF response.kind = "rejected" THEN Throw(<<"Failed to fetch">>)
    ELSE IF ~ response.ok
    THEN Throw(<<"LLM request failed (">> \o Decimal(response.status) \o <<"): ">>
               \o Slice0(response.body, BodySliceLimit))
    ELSE LET parsed == ParseResponseBody(response.body)
         IN  IF parsed.ok THEN readContentFromResponse(parsed.value) ELSE parsed

\* firstAttempt / fallbackAttempt, from the end of the HTTP exchange on
Attempt(response) ==
    LET text == callModel(response)
    IN  IF text.ok THEN extractJsonFromText(text.value) ELSE text

\* payload.recipes.map((recipe, index) => normalizeRecipe(recipe, index));
\* the n-th uuid drawn is uuid0 + n
MapNormalize(list, uuid0) ==
    LET results == [i \in 1..Len(list) |-> normalizeRecipe(list[i], i - 1, uuid0 + i)]
        thrown  == {i \in 1..Len(list) : ~ results[i].ok}
    IN  IF thrown # {} THEN results[SetMin(thrown)]
        ELSE Ok([i \in 1..Len(list) |-> results[i].value])

\* how many uuids the mapping draws: none for the element that throws
UuidsDrawn(parsed) ==
    IF Get(parsed, "recipes").t # "array" THEN 0
    ELSE LET list   == Get(parsed, "recipes").v
             thrown == {i \in 1..Len(list) : list[i].t \in {"null", "undefined"}}
         IN  IF thrown # {} THEN SetMin(thrown) - 1 ELSE Len(list)

\* a faulty variant: the count is not raised to 1
TruncateUnclamped(list, count) == Slice0(list, Min(6, count))

\* normalizedRecipes.slice(0, Math.max(1, Math.min(6, input.recipeCount)))
TruncateToCount(list, count) == Slice0(list, Max(1, Min(6, count)))

\* a faulty variant: an empty list of recipes is returned as a result
FinishWithoutEmptyCheck(parsed, count, uuid0) ==
    IF parsed.t \in {"null", "undefined"} THEN Throw(<<"TypeError">>)
    ELSE LET raw == Get(parsed, "recipes")
             normalizedRecipes == IF raw.t = "array" THEN MapNormalize(raw.v, uuid0) ELSE Ok(<<>>)
         IN  IF ~ normalizedRecipes.ok THEN normalizedRecipes
             ELSE Ok([ recipes |-> TruncateToCount(normalizedRecipes.value, count),
                       assistantSummary |->
                           normalizeString(Get(parsed, "assistantSummary"),
                                           <<"Recipes generated successfully.">>) ])

\* generateRecipesWithLlm after the try/catch: reading payload.recipes of null
\* throws a TypeError
Finish(parsed, count, uuid0) ==
    IF parsed.t \in {"null", "undefined"} THEN Throw(<<"TypeError">>)
    ELSE LET raw == Get(parsed, "recipes")
             normalizedRecipes == IF raw.t = "array" THEN MapNormalize(raw.v, uuid0) ELSE Ok(<<>>)
         IN  IF ~ normalizedRecipes.ok THEN normalizedRecipes
             ELSE IF Len(normalizedRecipes.value) = 0
             THEN Throw(<<"Model returned no usable recipes.">>)
             ELSE Ok([ recipes |-> TruncateToCount(normalizedRecipes.value, count),
                       assistantSummary |->
                           normalizeString(Get(parsed, "assistantSummary"),
                                           <<"Recipes generated successfully.">>) ])

(***************************************************************************)
(* The HTTP exchanges a call can meet.                                     *)
(***************************************************************************)
LongBody == [i \in 1..(BodySliceLimit + 1) |-> "x"]

ErrorBodies == { <<>>, <<"B", "a", "d">>, LongBody }

ReplyTexts ==
    { <<"{", tok, "}">> : tok \in MemberTokens }
      \cup { <<"x", NL, Fence, "json", NL, "{", "sum,recipes:[A,B]", "}", NL, Fence>>,
             <<Fence, "null", Fence>>,
             <<"{", "}", Fence, "x", Fence>>,
             <<"{", "}">>, <<"1">>, <<"x">>, <<" ">> }

OkBodies ==
    { <<"<html>">>, <<"null">>, <<"{", "}">>, <<"choices:[]">> }
      \cup { <<"content:">> \o text : text \in ReplyTexts }
      \cup { <<envelope>> \o text :
                envelope \in {"output_text:", "parts:"},
                text \in { <<"{", "sum,recipes:[A,B]", "}">>, <<"x">>, <<" ">> } }

ResponseChoices ==
    {NetworkError}
      \cup { HttpResponse(status, body) : status \in {401, 500}, body \in ErrorBodies }
      \cup { HttpResponse(200, body) : body \in OkBodies }

Request(count, withSchema) ==
    [body |-> buildRequestBody(count, withSchema), response |-> NotReturned]

Settle(i, response) == [requests EXCEPT ![i].response = Returned(response)]

\* generateRecipesWithLlm up to the first await: the structured request is sent
GenerateRecipesWithLlm ==
    /\ pc = "idle"
    /\ \E count \in RecipeCounts :
          /\ recipeCount' = count
          /\ requests' = << Request(count, TRUE) >>
    /\ pc' = "first"
    /\ UNCHANGED <<payload, outcome, uuidCounter>>

\* the rest of generateRecipesWithLlm, once an attempt has yielded a payload
Complete(parsed) ==
    /\ payload' = Returned(parsed)
    /\ outcome' = Returned(Finish(parsed, recipeCount, uuidCounter))
    /\ uuidCounter' = uuidCounter + UuidsDrawn(parsed)
    /\ pc' = "done"

\* the structured exchange ends: on a payload the call completes, on any
\* failure the catch block sends the request without schema
FirstAttemptSettles ==
    /\ pc = "first"
    /\ \E response \in ResponseChoices :
          LET attempt == Attempt(response)
          IN  IF attempt.ok
              THEN /\ requests' = Settle(1, response)
                   /\ Complete(attempt.value)
              ELSE /\ requests' = Append(Settle(1, response), Request(recipeCount, FALSE))
                   /\ pc' = "fallback"
                   /\ UNCHANGED <<payload, outcome, uuidCounter>>
    /\ UNCHANGED recipeCount

\* the exchange without schema ends: its failure rejects the call
FallbackAttemptSettles ==
    /\ pc = "fallback"
    /\ \E response \in ResponseChoices :
          LET attempt == Attempt(response)
          IN  /\ requests' = Settle(2, response)
              /\ IF attempt.ok
                 THEN Complete(attempt.value)
                 ELSE /\ outcome' = Returned(attempt)
                      /\ pc' = "done"
                      /\ UNCHANGED <<payload, uuidCounter>>
    /\ UNCHANGED recipeCount

LlmNext ==
    \/ GenerateRecipesWithLlm /\ UNCHANGED <<selVars, normVars, textVars, moreVars>>
    \/ FirstAttemptSettles /\ UNCHANGED <<selVars, normVars, textVars, moreVars>>
    \/ FallbackAttemptSettles /\ UNCHANGED <<selVars, normVars, textVars, moreVars>>

LlmInit == SelIdle /\ NormIdle /\ TextIdle /\ LlmIdle /\ MoreIdle

SpecLlm == LlmInit /\ [][LlmNext]_vars

HasSchema(request) == "response_format" \in DOMAIN request.body

FirstAttemptFailed ==
    /\ Len(requests) >= 1 /\ requests[1].response.returned
    /\ ~ Attempt(requests[1].response.value).ok

FirstAttemptSucceeded ==
    /\ Len(requests) >= 1 /\ requests[1].response.returned
    /\ Attempt(requests[1].response.value).ok

\* C6: the first request carries response_format; a second request exists if
\* and only if the first attempt has settled and failed, and it carries no
\* response_format; there are never more than two requests, and exactly one
\* when the first attempt succeeded.
C6_RequestProtocol ==
    /\ Len(requests) <= 2
    /\ Len(requests) >= 1 => HasSchema(requests[1])
    /\ Len(requests) = 2 <=> FirstAttemptFailed
    /\ Len(requests) = 2 => ~ HasSchema(requests[2])
    /\ FirstAttemptSucceeded => Len(requests) = 1
    /\ pc = "done" => \A i \in 1..Len(requests) : requests[i].response.returned

\* C6 witness: the structured attempt failed at JSON extraction, the request
\* without schema was sent after it and succeeded.
C6_Witness ==
    /\ pc = "done" /\ Len(requests) = 2
    /\ requests[1].response.value.kind = "response" /\ requests[1].response.value.ok
    /\ callModel(requests[1].response.value).ok
    /\ outcome.value.ok

\* C6 second witness: the structured attempt succeeded and is the only request
C6_WitnessSingleRequest ==
    pc = "done" /\ Len(requests) = 1 /\ outcome.value.ok

PayloadHasNoRecipes ==
    /\ payload.returned
    /\ payload.value.t # "null"
    /\ \/ Get(payload.value, "recipes").t # "array"
       \/ Get(payload.value, "recipes").v = <<>>

C7_WitnessFallbackMissing ==
    /\ payload.returned
    /\ payload.value = JObj(ReplyMembers("sum"))
    /\ Len(requests) = 2
    /\ outcome.returned /\ ~ outcome.value.ok

\* a fenced null reply: the payload is null and the call rejects with a TypeError
NullPayloadRejected ==
    /\ payload.returned /\ payload.value = JNull
    /\ outcome = Returned(Throw(<<"TypeError">>))

\* C10: a successful call returns at least 1 and at most min(6, max(1,
\* recipeCount)) recipes, and they are the normalizations of the first
\* elements of the reply, in the reply's order.
C10_ClampedPrefix ==
    (outcome.returned /\ outcome.value.ok) =>
        LET returned == outcome.value.value.recipes
            reply    == Get(payload.value, "recipes").v
        IN  /\ Len(returned) >= 1
            /\ Len(returned) <= Min(6, Max(1, recipeCount))
            /\ Len(returned) <= Len(reply)
            /\ \A i \in 1..Len(returned) :
                  returned[i] = normalizeRecipe(reply[i], i - 1, i).value

\* C10 witness: recipeCount is 0 or negative, the reply holds 7 recipes, 1 is returned
C10_Witness ==
    /\ outcome.returned /\ outcome.value.ok
    /\ recipeCount <= 0
    /\ Len(Get(payload.value, "recipes").v) = 7
    /\ Len(outcome.value.value.recipes) = 1

\* C10 second witness: recipeCount above 6, the reply holds 7 recipes, 6 are returned
C10_WitnessAboveSix ==
    /\ outcome.returned /\ outcome.value.ok
    /\ recipeCount > 6
    /\ Len(Get(payload.value, "recipes").v) = 7
    /\ Len(outcome.value.value.recipes) = 6

(***************************************************************************)
(* IEEE-754 double arithmetic, for the quotients and products the engine   *)
(* rounds.  A positive double is 53 binary digits, the first of them 1,    *)
(* and an exponent: its value is 0.d1 d2 ... d53 (binary) times 2^exp.     *)
(***************************************************************************)
MantissaBits == 53

\* the binary digits of r/t after the point, six at a time: n groups of six
\* digits and the remainder left after them, for 0 <= r < t
RECURSIVE QuotientBits(_, _, _)
QuotientBits(r, t, n) ==
    IF n = 0 THEN [bits |-> <<>>, rem |-> r]
    ELSE LET group == (r * 64) \div t
             later == QuotientBits((r * 64) % t, t, n - 1)
         IN  [ bits |-> [j \in 1..6 |-> (group \div (2 ^ (6 - j))) % 2] \o later.bits,
               rem  |-> later.rem ]

\* how many zero digits k/t has after the point before its first 1, for 0 < k < t
RECURSIVE LeadingZeros(_, _)
LeadingZeros(k, t) == IF 2 * k >= t THEN 0 ELSE 1 + LeadingZeros(2 * k, t)

Zeros(n) == [i \in 1..n |-> 0]

\* bits + 1, on digits with the most significant first: the last 0 becomes 1
\* and the 1s after it 0
Increment(bits) ==
    LET zeroAt == {i \in 1..Len(bits) : bits[i] = 0}
    IN  IF zeroAt = {} THEN <<1>> \o Zeros(Len(bits))
        ELSE LET last == CHOOSE i \in zeroAt : \A j \in zeroAt : j <= i
             IN  [i \in 1..Len(bits) |-> IF i < last THEN bits[i] ELSE IF i = last THEN 1 ELSE 0]

\* round to nearest, ties to even: digits (the first of them 1, at least 53)
\* with value 0.digits times 2^exp, and whether non-zero digits follow them
RoundToDouble(digits, sticky, exp) ==
    LET kept  == SubSeq(digits, 1, MantissaBits)
        guard == IF Len(digits) > MantissaBits THEN digits[MantissaBits + 1] ELSE 0
        rest  == sticky \/ \E i \in (MantissaBits + 2)..Len(digits) : digits[i] = 1
        up    == guard = 1 /\ (rest \/ kept[MantissaBits] = 1)
        next  == Increment(kept)
    IN  IF ~ up THEN [bits |-> kept, exp |-> exp]
        ELSE IF Len(next) > MantissaBits
             THEN [bits |-> SubSeq(next, 1, MantissaBits), exp |-> exp + 1]
             ELSE [bits |-> next, exp |-> exp]

\* the double k / t for integers 0 < k < t
DoubleQuotient(k, t) ==
    LET zeros    == LeadingZeros(k, t)
        quotient == QuotientBits((k * (2 ^ zeros)) % t, t, 10)
    IN  RoundToDouble(quotient.bits, quotient.rem # 0, 0 - zeros)

\* a + b on digit sequences of one length; the result is one digit longer.
\* A carry leaves position i when some position from i on generates one and
\* all positions between pass it on.
AddBits(a, b) ==
    LET n == Len(a)
        CarryOut(i) ==
            \E j \in i..n : /\ a[j] + b[j] = 2
                            /\ \A l \in i..(j - 1) : a[l] + b[l] = 1
    IN  [i \in 1..(n + 1) |->
            IF i = 1 THEN (IF CarryOut(1) THEN 1 ELSE 0)
            ELSE (a[i - 1] + b[i - 1] + (IF CarryOut(i) THEN 1 ELSE 0)) % 2]

StripLeadingZeros(bits) ==
    LET oneAt == {i \in 1..Len(bits) : bits[i] = 1}
    IN  IF oneAt = {} THEN <<>>
        ELSE SubSeq(bits, CHOOSE i \in oneAt : \A j \in oneAt : i <= j, Len(bits))

\* the double x * 100: 100 = 64 + 32 + 4
DoubleTimes100(x) ==
    LET sum9632 == AddBits(x.bits \o Zeros(6), <<0>> \o x.bits \o Zeros(5))
        product == StripLeadingZeros(AddBits(sum9632, Zeros(5) \o x.bits \o Zeros(2)))
    IN  RoundToDouble(product, FALSE, x.exp - MantissaBits + Len(product))

\* the integer of a digit sequence
RECURSIVE BitsValue(_)
BitsValue(bits) ==
    IF bits = <<>> THEN 0
    ELSE 2 * BitsValue(SubSeq(bits, 1, Len(bits) - 1)) + bits[Len(bits)]

\* Math.round of a positive double below 2^30: floor(x + 1/2), exactly
MathRound(x) ==
    IF x.exp < 0 THEN 0
    ELSE BitsValue(SubSeq(x.bits, 1, x.exp)) + x.bits[x.exp + 1]

(***************************************************************************)
(* The pantry matcher's percentage.                                        *)
(***************************************************************************)
\* pantryFitPercent: ((total - missing) / total) * 100 in doubles, then Math.round
pantryFitPercent(recipe, pantry) ==
    IF Len(recipe.ingredients) = 0 THEN 0
    ELSE LET total        == Len(recipe.ingredients)
             missingCount == Len(missingIngredients(recipe, pantry))
             fit          == IF missingCount = total THEN 0
                             ELSE IF missingCount = 0 THEN 100
                             ELSE MathRound(DoubleTimes100(DoubleQuotient(total - missingCount,
                                                                          total)))
         IN  Max(0, Min(100, fit))

(***************************************************************************)
(* Inputs of the pantry matcher: short ingredient lists over names that    *)
(* share tokens and parts of tokens with the pantry entries, and long      *)
(* lists of which the first few ingredients are in the pantry.             *)
(***************************************************************************)
MaxIngredients == 40

Eggplant   == <<"e","g","g","p","l","a","n","t">>
Milk       == <<"m","i","l","k">>
OatSoyMilk == <<"o","a","t"," ","s","o","y"," ","m","i","l","k">>
OatHyphen  == <<"O","a","t","-","m","i","l","k">>
Symbols    == <<"!","?">>

NameChoices == { Egg, Eggs, Rice, Tea, OatMilk, Eggplant, Milk, OatSoyMilk, OatHyphen, Symbols }

EntryChoices ==
    { <<" ","e","g","g"," ">>, <<"R","i","c","e","!">>, Milk,
      <<"o","a","t"," "," ","m","i","l","k">>, Eggplant, <<"s","o","y">>,
      <<"?","!">>, <<"T","E","A"," ","o","a","t">> }

ShortNameLists == UNION {[1..n -> NameChoices] : n \in 0..2}

ShortPantries == UNION {[1..n -> EntryChoices] : n \in 0..2}

\* total ingredients, the first matched of them eggs and the others tea
LongNameList(total, matched) == [i \in 1..total |-> IF i <= matched THEN Egg ELSE Tea]

LongNameLists ==
    { LongNameList(total, Min(matched, total)) :
        total \in 3..MaxIngredients, matched \in 0..MaxIngredients }

RecipeOf(names) == [ingredients |-> [i \in 1..Len(names) |-> Ingredient(names[i], i, "g")]]

(***************************************************************************)
(* The pantry matcher: one call each of missingIngredients and              *)
(* pantryFitPercent on a recipe and a pantry.                              *)
(***************************************************************************)
FitInit ==
    /\ \/ /\ \E names \in ShortNameLists : fitRecipe = RecipeOf(names)
          /\ fitPantry \in ShortPantries
       \/ /\ \E names \in LongNameLists : fitRecipe = RecipeOf(names)
          /\ fitPantry = << <<" ","e","g","g"," ">> >>
    /\ missingResult = NotReturned
    /\ fitPercent = NotReturned

MissingIngredients ==
    /\ ~ missingResult.returned
    /\ missingResult' = Returned(missingIngredients(fitRecipe, fitPantry))
    /\ UNCHANGED <<fitRecipe, fitPantry, fitPercent>>

PantryFitPercent ==
    /\ ~ fitPercent.returned
    /\ fitPercent' = Returned(pantryFitPercent(fitRecipe, fitPantry))
    /\ UNCHANGED <<fitRecipe, fitPantry, missingResult>>

FitNext ==
    \/ MissingIngredients /\ UNCHANGED <<selVars, normVars, textVars, llmVars, scaleVars, ownVars, appVars, swapVars, settingsVars>>
    \/ PantryFitPercent /\ UNCHANGED <<selVars, normVars, textVars, llmVars, scaleVars, ownVars, appVars, swapVars, settingsVars>>

PantryInit == SelIdle /\ NormIdle /\ TextIdle /\ LlmIdle /\ FitInit /\ ScaleIdle /\ OwnIdle /\ AppIdle /\ SwapIdle /\ SettingsIdle

SpecPantry == PantryInit /\ [][FitNext]_vars

\* the tokens of a text: its normalised form split at the spaces
RECURSIVE SplitAtSpaces(_)
SplitAtSpaces(str) ==
    LET spaces == {i \in 1..Len(str) : str[i] = " "}
    IN  IF str = <<>> THEN <<>>
        ELSE IF spaces = {} THEN <<str>>
        ELSE LET first == CHOOSE i \in spaces : \A j \in spaces : i <= j
             IN  <<SubSeq(str, 1, first - 1)>> \o SplitAtSpaces(SubSeq(str, first + 1, Len(str)))

Tokens(str) == SplitAtSpaces(normaliseText(str))

\* a is a contiguous run of whole tokens of b (two texts without tokens are
\* each the run of the other)
IsTokenRun(a, b) ==
    IF a = <<>> THEN b = <<>>
    ELSE \E off \in 0..(Len(b) - Len(a)) : SubSeq(b, off + 1, off + Len(a)) = a

NameMatches(name, entry) ==
    \/ IsTokenRun(Tokens(name), Tokens(entry))
    \/ IsTokenRun(Tokens(entry), Tokens(name))

InPantry(name) == \E j \in 1..Len(fitPantry) : NameMatches(name, fitPantry[j])

MatchedCount == Cardinality({i \in 1..Len(fitRecipe.ingredients) : InPantry(fitRecipe.ingredients[i].name)})

\* C11: pantryFitPercent is an integer in [0,100] equal to round(100 * (total -
\* missing) / total), 0 for a recipe without ingredients and for an empty
\* pantry, and 100 when every ingredient of a non-empty list is in the pantry.
C11_FitIsRoundedPercent ==
    fitPercent.returned =>
        LET total == Len(fitRecipe.ingredients)
        IN  /\ fitPercent.value \in 0..100
            /\ total = 0 => fitPercent.value = 0
            /\ fitPantry = <<>> => fitPercent.value = 0
            /\ total > 0 =>
                  fitPercent.value = (200 * MatchedCount + total) \div (2 * total)
            /\ (total > 0 /\ MatchedCount = total) => fitPercent.value = 100

\* what holds of the percentage: it is an integer nearest to the exact
\* percentage, but at an exact half not always the upper one
FitIsNearestPercent ==
    fitPercent.returned =>
        LET total == Len(fitRecipe.ingredients)
        IN  /\ fitPercent.value \in 0..100
            /\ total = 0 => fitPercent.value = 0
            /\ total > 0 =>
                  LET distance == 100 * MatchedCount - fitPercent.value * total
                  IN  2 * distance <= total /\ 2 * distance >= 0 - total

\* a percentage that was rounded up from a fraction: 2 of 3 ingredients give 67
FitRoundedUp ==
    /\ fitPercent.returned /\ Len(fitRecipe.ingredients) = 3 /\ fitPercent.value = 67

\* C12: missingIngredients returns, in recipe order, exactly the ingredients
\* whose name matches no pantry entry, a match being that the tokens of one are
\* a contiguous run of the tokens of the other; with an empty pantry every
\* ingredient is missing, and egg does not match eggplant.
C12_MissingAreUnmatched ==
    missingResult.returned =>
        LET Unmatched(ingredient) == ~ InPantry(ingredient.name)
        IN  /\ missingResult.value = SelectSeq(fitRecipe.ingredients, Unmatched)
            /\ fitPantry = <<>> => missingResult.value = fitRecipe.ingredients
            /\ \A i \in 1..Len(fitRecipe.ingredients) :
                  ( /\ fitRecipe.ingredients[i].name = Egg
                    /\ \A j \in 1..Len(fitPantry) : fitPantry[j] = Eggplant )
                      => Includes(missingResult.value, fitRecipe.ingredients[i])

\* C12 witness: egg is missing beside eggplant while milk is found in the
\* entry "oat  milk", of which it is one token.
C12_Witness ==
    /\ missingResult.returned
    /\ fitPantry = << Eggplant, <<"o","a","t"," "," ","m","i","l","k">> >>
    /\ Len(fitRecipe.ingredients) = 2
    /\ fitRecipe.ingredients[1].name = Egg /\ fitRecipe.ingredients[2].name = Milk
    /\ missingResult.value = << fitRecipe.ingredients[1] >>

\* C12 second witness: a name of three tokens does not match the entry made of
\* its first and last token
C12_WitnessNotContiguous ==
    /\ missingResult.returned
    /\ fitPantry = << <<"o","a","t"," "," ","m","i","l","k">> >>
    /\ Len(fitRecipe.ingredients) = 1
    /\ fitRecipe.ingredients[1].name = OatSoyMilk
    /\ missingResult.value = fitRecipe.ingredients

(***************************************************************************)
(* Serving scaling.  Quantities are held in tenths (12.5 is 125), so that  *)
(* every result of roundQuantity, a whole number, a half or a tenth, is an *)
(* integer.  The scaled value quantity * (target / current) is the         *)
(* fraction num / den of tenths with num = quantity * target and           *)
(* den = current.                                                          *)
(***************************************************************************)
MaxTenths == 620

MaxServings == 8

\* Math.round of the fraction num / den: the nearest integer, a tie upwards
RoundHalfUp(num, den) == (2 * num + den) \div (2 * den)

\* num / den lies exactly half way between two integers
IsTie(num, den) == (2 * num) % den = 0 /\ ((2 * num) \div den) % 2 = 1

\* the rounding step of roundQuantity for the value num / den tenths, in tenths
StepOf(num, den) ==
    IF num >= 500 * den THEN 10
    ELSE IF num >= 100 * den THEN 5
    ELSE 1

\* roundQuantity(value) for value = num / den tenths, in tenths
roundQuantity(num, den) ==
    IF num >= 500 * den THEN 10 * RoundHalfUp(num, 10 * den)
    ELSE IF num >= 100 * den THEN 5 * RoundHalfUp(num, 5 * den)
    ELSE RoundHalfUp(num, den)

RECURSIVE Gcd(_, _)
Gcd(a, b) == IF b = 0 THEN a ELSE Gcd(b, a % b)

IsPowerOfTwo(n) == \E k \in 0..30 : n = 2 ^ k

\* quantity * (target / current) is computed without rounding error when the
\* quantity is a multiple of one half and the factor a dyadic fraction
ExactInDoubles(quantity, current, target) ==
    /\ quantity % 5 = 0
    /\ IsPowerOfTwo(current \div Gcd(current, target))

\* The results roundQuantity(quantity * factor) can have.  The code works in
\* doubles, whose error is far below the distance of any value that is not a
\* tie from the nearest tie; at a tie computed with a rounding error the
\* double can fall on either side of it.
ScaledQuantities(quantity, current, target) ==
    LET num  == quantity * target
        den  == current
        step == StepOf(num, den)
        up   == roundQuantity(num, den)
    IN  IF IsTie(num, step * den) /\ ~ ExactInDoubles(quantity, current, target)
        THEN {up, up - step}
        ELSE {up}

\* the lists ingredients.map(...) can produce
RECURSIVE MappedLists(_, _, _)
MappedLists(ingredients, current, target) ==
    IF ingredients = <<>> THEN { <<>> }
    ELSE { <<[Head(ingredients) EXCEPT !.quantity = q]>> \o rest :
             q \in ScaledQuantities(Head(ingredients).quantity, current, target),
             rest \in MappedLists(Tail(ingredients), current, target) }

\* the lists scaleIngredients can return
scaleIngredients(ingredients, current, target) ==
    IF current <= 0 \/ target <= 0 THEN { ingredients }
    ELSE MappedLists(ingredients, current, target)

\* up to MaxTenths tenths, and 200
QuantityChoices == 0..MaxTenths \cup {2000}

ServingChoices == (0 - 1)..MaxServings

IngredientLists ==
    { <<>> } \cup { <<Ingredient(Rice, q, "g")>> : q \in QuantityChoices }
    \cup { <<Ingredient(Rice, q, "g"), Ingredient(Tea, MaxTenths - q, "tsp")>> :
             q \in {x \in 0..MaxTenths : x % 100 = 0} }

ScaleInit ==
    /\ scaleIngs \in IngredientLists
    /\ currentServings \in ServingChoices
    /\ targetServings \in ServingChoices
    /\ scaled = NotReturned
    /\ scaledBack = NotReturned

\* scaleIngredients(ingredients, currentServings, targetServings)
ScaleThere ==
    /\ ~ scaled.returned
    /\ \E list \in scaleIngredients(scaleIngs, currentServings, targetServings) :
           scaled' = Returned(list)
    /\ UNCHANGED <<scaleIngs, currentServings, targetServings, scaledBack>>

\* scaleIngredients(scaled, targetServings, currentServings)
ScaleBack ==
    /\ scaled.returned
    /\ ~ scaledBack.returned
    /\ \E list \in scaleIngredients(scaled.value, targetServings, currentServings) :
           scaledBack' = Returned(list)
    /\ UNCHANGED <<scaleIngs, currentServings, targetServings, scaled>>

ScaleNext ==
    \/ ScaleThere /\ UNCHANGED <<selVars, normVars, textVars, llmVars, fitVars, ownVars, appVars, swapVars, settingsVars>>
    \/ ScaleBack /\ UNCHANGED <<selVars, normVars, textVars, llmVars, fitVars, ownVars, appVars, swapVars, settingsVars>>

ScalingInit == SelIdle /\ NormIdle /\ TextIdle /\ LlmIdle /\ FitIdle /\ ScaleInit /\ OwnIdle /\ AppIdle /\ SwapIdle /\ SettingsIdle

SpecScale == ScalingInit /\ [][ScaleNext]_vars

Abs(n) == IF n < 0 THEN 0 - n ELSE n

\* the rounding step that applies to a quantity, in tenths
StepFor(quantity) ==
    IF quantity >= 500 THEN 10 ELSE IF quantity >= 100 THEN 5 ELSE 1

\* C13: scaling a quantity from N to M servings and the result back from M to
\* N yields a quantity within the rounding step of the original (1 from 50
\* up, 0.5 from 10 up, 0.1 below), and 200 scaled from 4 servings to 2 is 100.
C13_RoundTripWithinStep ==
    /\ (currentServings > 0 /\ targetServings > 0 /\ scaledBack.returned) =>
           \A i \in 1..Len(scaleIngs) :
               Abs(scaledBack.value[i].quantity - scaleIngs[i].quantity)
                   <= StepFor(scaleIngs[i].quantity)
    /\ (currentServings = 4 /\ targetServings = 2 /\ scaled.returned) =>
           \A i \in 1..Len(scaleIngs) :
               scaleIngs[i].quantity = 2000 => scaled.value[i].quantity = 1000

\* 1 scaled from 7 servings to 1 is 0.1, and 0.1 scaled back to 7 is 0.7
RoundTripLosesThreeTenths ==
    /\ currentServings = 7 /\ targetServings = 1
    /\ scaleIngs = <<Ingredient(Rice, 10, "g")>>
    /\ scaled.returned /\ scaled.value[1].quantity = 1
    /\ scaledBack.returned /\ scaledBack.value[1].quantity = 7

\* 200 scaled from 4 servings to 2 has come out as 100
Halved2000 ==
    /\ currentServings = 4 /\ targetServings = 2 /\ scaled.returned
    /\ Len(scaleIngs) = 1 /\ scaleIngs[1].quantity = 2000
    /\ scaled.value[1].quantity = 1000

(***************************************************************************)
(* Object identity.  The caller's objects live in a heap, a sequence of    *)
(* cells addressed by their index: an array cell holds the addresses of    *)
(* its elements, an object cell the fields of a recipe or an ingredient.   *)
(* The core is called on an array of the heap; afterwards the caller       *)
(* changes the array it got back, or one of its elements.                  *)
(***************************************************************************)
ArrayCell(items) == [kind |-> "array", items |-> items, object |-> <<>>]

ObjectCell(object) == [kind |-> "object", items |-> <<>>, object |-> object]

\* the heap h with a new array of new objects, the array in the last cell
AllocList(h, list) ==
    h \o [i \in 1..Len(list) |-> ObjectCell(list[i])]
      \o <<ArrayCell([i \in 1..Len(list) |-> Len(h) + i])>>

\* the list the array at address a holds
ListAt(h, a) == [i \in 1..Len(h[a].items) |-> h[h[a].items[i]].object]

\* an object together with its address
WithRef(object, a) ==
    [f \in DOMAIN object \cup {"ref"} |-> IF f = "ref" THEN a ELSE object[f]]

RefListAt(h, a) ==
    [i \in 1..Len(h[a].items) |-> WithRef(h[h[a].items[i]].object, h[a].items[i])]

\* generateRecipeOptions on the array at address a: filter, slice and map make
\* a new array, whose elements are the recipe objects of the input
GenerateOnHeap(h, a, pantry, prefs) ==
    LET result == generateRecipeOptions(RefListAt(h, a), pantry, prefs)
    IN  Append(h, ArrayCell([i \in 1..Len(result) |-> result[i].ref]))

\* scaleIngredients on the array at address a: the heaps it can leave and the
\* address it returns.  The early return hands back the argument; map makes a
\* new array, and the spread a new object for every ingredient.
ScaleOnHeap(h, a, current, target) ==
    IF current <= 0 \/ target <= 0 THEN { [heap |-> h, result |-> a] }
    ELSE { [heap |-> AllocList(h, list), result |-> Len(h) + Len(list) + 1] :
             list \in MappedLists(ListAt(h, a), current, target) }

OwnedIngredientLists ==
    { <<>>, <<Ingredient(Rice, 10, "g")>>,
      <<Ingredient(Rice, 2000, "g"), Ingredient(Tea, 5, "tsp")>> }

GenerateCall(h, pantry, prefs) ==
    [name |-> "generateRecipeOptions", input |-> Len(h), before |-> ListAt(h, Len(h)),
     pantry |-> pantry, prefs |-> prefs]

ScaleCall(h, current, target) ==
    [name |-> "scaleIngredients", input |-> Len(h), before |-> ListAt(h, Len(h)),
     current |-> current, target |-> target]

OwnInit ==
    /\ \/ \E chosen \in SUBSET (1..NumRecipes), pantry \in PantryChoices,
             prefs \in PreferenceChoices :
              /\ heap = AllocList(<<>>, Corpus(chosen))
              /\ ownCall = GenerateCall(heap, pantry, prefs)
       \/ \E list \in OwnedIngredientLists, current, target \in ServingChoices :
              /\ heap = AllocList(<<>>, list)
              /\ ownCall = ScaleCall(heap, current, target)
    /\ ownResult = NotReturned
    /\ mutated = FALSE

CallGenerate ==
    /\ ownCall.name = "generateRecipeOptions"
    /\ ~ ownResult.returned
    /\ heap' = GenerateOnHeap(heap, ownCall.input, ownCall.pantry, ownCall.prefs)
    /\ ownResult' = Returned(Len(heap'))
    /\ UNCHANGED <<ownCall, mutated>>

CallScale ==
    /\ ownCall.name = "scaleIngredients"
    /\ ~ ownResult.returned
    /\ \E after \in ScaleOnHeap(heap, ownCall.input, ownCall.current, ownCall.target) :
           /\ heap' = after.heap
           /\ ownResult' = Returned(after.result)
    /\ UNCHANGED <<ownCall, mutated>>

\* the caller removes the last element of the array it got back
MutateReturnedList ==
    /\ ownResult.returned
    /\ ~ mutated
    /\ heap[ownResult.value].items # <<>>
    /\ heap' = [heap EXCEPT ![ownResult.value].items = SubSeq(@, 1, Len(@) - 1)]
    /\ mutated' = TRUE
    /\ UNCHANGED <<ownCall, ownResult>>

\* the caller overwrites a field of an element of the array it got back
Overwritten(object) ==
    IF "quantity" \in DOMAIN object
    THEN [object EXCEPT !.quantity = @ + 1]
    ELSE [object EXCEPT !.cookTimeMinutes = @ + 1]

MutateReturnedElement ==
    /\ ownResult.returned
    /\ ~ mutated
    /\ \E i \in 1..Len(heap[ownResult.value].items) :
           heap' = [heap EXCEPT ![heap[ownResult.value].items[i]].object = Overwritten(@)]
    /\ mutated' = TRUE
    /\ UNCHANGED <<ownCall, ownResult>>

OwnNext ==
    \/ CallGenerate /\ UNCHANGED <<selVars, normVars, textVars, llmVars, fitVars, scaleVars, appVars, swapVars, settingsVars>>
    \/ CallScale /\ UNCHANGED <<selVars, normVars, textVars, llmVars, fitVars, scaleVars, appVars, swapVars, settingsVars>>
    \/ MutateReturnedList
           /\ UNCHANGED <<selVars, normVars, textVars, llmVars, fitVars, scaleVars, appVars, swapVars, settingsVars>>
    \/ MutateReturnedElement
           /\ UNCHANGED <<selVars, normVars, textVars, llmVars, fitVars, scaleVars, appVars, swapVars, settingsVars>>

OwnershipInit ==
    SelIdle /\ NormIdle /\ TextIdle /\ LlmIdle /\ FitIdle /\ ScaleIdle /\ OwnInit /\ AppIdle /\ SwapIdle /\ SettingsIdle

SpecOwnership == OwnershipInit /\ [][OwnNext]_vars

\* the addresses of an array and of its elements
ObjectsOf(a) == {a} \cup {heap[a].items[i] : i \in 1..Len(heap[a].items)}

\* C14: what the core returns is an independent copy: no returned array or
\* element is an object of the input, and whatever the caller does to the
\* result, the input array still holds what it held at the call.
C14_ReturnedAreCopies ==
    ownResult.returned =>
        /\ ObjectsOf(ownResult.value) \cap ObjectsOf(ownCall.input) = {}
        /\ ListAt(heap, ownCall.input) = ownCall.before

\* a recipe of the caller's corpus has changed through the returned list
CorpusRecipeChanged ==
    /\ ownCall.name = "generateRecipeOptions"
    /\ mutated
    /\ ListAt(heap, ownCall.input) # ownCall.before

\* scaleIngredients with a servings count of 0 has returned its argument, and
\* removing an element from the result has removed it from the input
ScaleReturnedItsArgument ==
    /\ ownCall.name = "scaleIngredients"
    /\ ownCall.current > 0 /\ ownCall.target = 0
    /\ ownResult.returned /\ ownResult.value = ownCall.input
    /\ mutated
    /\ Len(ListAt(heap, ownCall.input)) < Len(ownCall.before)

\* scaleIngredients with positive servings returns new objects throughout
ScaledAreCopies ==
    (ownCall.name = "scaleIngredients" /\ ownCall.current > 0 /\ ownCall.target > 0
     /\ ownResult.returned) =>
        /\ ObjectsOf(ownResult.value) \cap ObjectsOf(ownCall.input) = {}
        /\ ListAt(heap, ownCall.input) = ownCall.before

(***************************************************************************)
(* The app.  Its handlers run to their first await in one step; a call of  *)
(* generateRecipesWithLlm stays in flight until its HTTP responses have    *)
(* arrived, and the rest of the handler runs when it settles.  Messages    *)
(* are held like error messages, as a sequence of their parts, the empty   *)
(* string as the empty sequence.                                           *)
(***************************************************************************)
MaxTurns == 4

OfflineSummary ==
    <<"Generated from offline library. Add an API key for dynamic AI recipes.">>

OfflineTurn == <<"Used offline fallback generation because no API key was provided.">>

SelectPrompt == <<"Select a recipe and provide a follow-up refinement request.">>

AddKeyPrompt == <<"Add an API key to run recipe refinements.">>

\* a faulty variant: the key is not trimmed
HasApiKeyUntrimmed(key) == key # <<>>

\* !aiSettings.apiKey.trim() is false
HasApiKey(key) == Trim(key) # <<>>

\* generatedRecipes.find((recipe) => recipe.id === selectedRecipeId): its
\* index, 0 for null
SelectedIndex(list, id) ==
    IF \E i \in 1..Len(list) : list[i].id = id
    THEN CHOOSE i \in 1..Len(list) :
             list[i].id = id /\ \A j \in 1..(i - 1) : list[j].id # id
    ELSE 0

\* a faulty variant: every recipe is kept
KeepAllRecipes(list) == list

\* ensureUniqueRecipes: a Map keeps a key at its first position, with the
\* value set last
ensureUniqueRecipes(list) ==
    LET First(i) == \A j \in 1..(i - 1) : list[j].id # list[i].id
        firsts   == SelectSeq([i \in 1..Len(list) |-> i], First)
        Last(id) == CHOOSE i \in 1..Len(list) :
                        list[i].id = id /\ \A j \in (i + 1)..Len(list) : list[j].id # id
    IN  [k \in 1..Len(firsts) |-> list[Last(list[firsts[k]].id)]]

Turn(role, text) == [role |-> role, text |-> text]

\* a recipe from the model, with the id normalizeRecipe draws for it
AiRecipe(n) ==
    Recipe("ai-" \o ToString(n), Thai, 20, <<>>, <<>>, <<"hob">>, <<Ingredient(Rice, 1, "g")>>)

AiSummary == <<"summary">>

\* the ways a call of generateRecipesWithLlm can settle: with one or two
\* recipes, or with an error; either after one request or after the fallback
\* request as well
SettleError == <<"LLM request failed">>

NoRecipesError == <<"Model returned no usable recipes.">>

SettleChoices ==
    { [ok |-> TRUE, count |-> n, fallback |-> f, error |-> <<>>] : n \in 1..2, f \in BOOLEAN }
    \cup { [ok |-> FALSE, count |-> 0, fallback |-> TRUE, error |-> SettleError],
           [ok |-> FALSE, count |-> 0, fallback |-> FALSE, error |-> NoRecipesError] }

MaxLoads == 1

MaxEdits == 1

Kale == <<"k", "a", "l", "e">>

Water == <<"w", "a", "t", "e", "r">>

KeyChoices == { <<>>, <<" ", "\n">>, <<" ", "k">> }

FollowUpChoices == { <<>>, <<" ">>, <<"s", "p", "i", "c", "e">> }

AppInit ==
    /\ baseRecipes \in { Corpus({1, 4}), Corpus(1..(NumRecipes - 1)) }
    /\ customRecipes \in { <<>>, <<PoolRecipe(NumRecipes)>> }
    /\ appPantry = << <<"R","i","c","e","!">>, <<" ","e","g","g"," ">> >>
    /\ appPreferences \in {prefs \in PreferenceChoices : prefs.servings = 4}
    /\ apiKey \in KeyChoices
    /\ followUpPrompt = <<>>
    /\ generatedRecipes = <<>>
    /\ selectedRecipeId = NullId
    /\ statusMessage = <<>>
    /\ errorMessage = <<>>
    /\ isGenerating = FALSE
    /\ conversation = <<>>
    /\ inflight = NoneInFlight
    /\ httpRequests = 0
    /\ idsIssued = 0

\* a faulty variant: the error message is left as it is
ApplyKeepsError(nextRecipes, summary) ==
    /\ generatedRecipes' = nextRecipes
    /\ selectedRecipeId' = IF nextRecipes = <<>> THEN NullId ELSE nextRecipes[1].id
    /\ statusMessage' = summary
    /\ errorMessage' = errorMessage

\* applyGeneratedRecipes(nextRecipes, summary)
ApplyGeneratedRecipes(nextRecipes, summary) ==
    /\ generatedRecipes' = nextRecipes
    /\ selectedRecipeId' = IF nextRecipes = <<>> THEN NullId ELSE nextRecipes[1].id
    /\ statusMessage' = summary
    /\ errorMessage' = <<>>

\* handleGenerateRecipes, up to the await of generateRecipesWithLlm or, without
\* a key, to its end
HandleGenerateRecipes ==
    /\ ~ isGenerating
    /\ Len(conversation) < MaxTurns
    /\ IF ~ HasApiKey(apiKey)
       THEN /\ ApplyGeneratedRecipes(
                   generateRecipeOptions(baseRecipes \o customRecipes, appPantry,
                                         appPreferences),
                   OfflineSummary)
            /\ conversation' =
                   <<Turn("assistant", OfflineTurn), Turn("user", <<"goal">>)>> \o conversation
            /\ isGenerating' = FALSE
            /\ UNCHANGED <<inflight, httpRequests>>
       ELSE /\ isGenerating' = TRUE
            /\ errorMessage' = <<>>
            /\ conversation' = <<Turn("user", <<"goal">>)>> \o conversation
            /\ inflight' = [kind |-> "generate"]
            /\ httpRequests' = httpRequests + 1
            /\ UNCHANGED <<generatedRecipes, selectedRecipeId, statusMessage>>
    /\ UNCHANGED <<baseRecipes, customRecipes, appPantry, appPreferences, apiKey,
                   followUpPrompt, idsIssued>>

\* handleRefineRecipe, up to the await of generateRecipesWithLlm
HandleRefineRecipe ==
    LET selected == SelectedIndex(generatedRecipes, selectedRecipeId)
    IN  /\ ~ isGenerating
        /\ selected # 0
        /\ Len(conversation) < MaxTurns
        /\ IF selected = 0 \/ Trim(followUpPrompt) = <<>>
           THEN /\ errorMessage' = SelectPrompt
                /\ UNCHANGED <<isGenerating, conversation, inflight, httpRequests>>
           ELSE IF ~ HasApiKey(apiKey)
           THEN /\ errorMessage' = AddKeyPrompt
                /\ UNCHANGED <<isGenerating, conversation, inflight, httpRequests>>
           ELSE /\ isGenerating' = TRUE
                /\ errorMessage' = <<>>
                /\ conversation' =
                       <<Turn("user", <<"Refine ", generatedRecipes[selected].id>>)>>
                           \o conversation
                /\ inflight' = [kind |-> "refine",
                                selectedRecipe |-> generatedRecipes[selected],
                                generatedRecipes |-> generatedRecipes]
                /\ httpRequests' = httpRequests + 1
        /\ UNCHANGED <<baseRecipes, customRecipes, appPantry, appPreferences, apiKey,
                       followUpPrompt, generatedRecipes, selectedRecipeId, statusMessage,
                       idsIssued>>

\* a faulty variant: the flag is left set
FinallySkipped == isGenerating' = isGenerating /\ inflight' = NoneInFlight

\* the finally block of both handlers: setIsGenerating(false)
Finally == isGenerating' = FALSE /\ inflight' = NoneInFlight

\* the rest of the handler in flight, run when generateRecipesWithLlm settles
LlmSettles ==
    /\ inflight.kind # "none"
    /\ \E settle \in SettleChoices :
        LET replacement == [i \in 1..settle.count |-> AiRecipe(idsIssued + i)]
            NotSelected(recipe) == recipe.id # inflight.selectedRecipe.id
            merged ==
                IF inflight.kind = "generate" THEN replacement
                ELSE Slice0(ensureUniqueRecipes(
                                replacement \o SelectSeq(inflight.generatedRecipes, NotSelected)),
                            8)
        IN  /\ httpRequests' = httpRequests + (IF settle.fallback THEN 1 ELSE 0)
            /\ idsIssued' = idsIssued + settle.count
            /\ IF settle.ok
               THEN /\ ApplyGeneratedRecipes(merged, AiSummary)
                    /\ followUpPrompt' =
                           IF inflight.kind = "refine" THEN <<>> ELSE followUpPrompt
                    /\ conversation' = <<Turn("assistant", AiSummary)>> \o conversation
               ELSE /\ errorMessage' = settle.error
                    /\ UNCHANGED <<generatedRecipes, selectedRecipeId, statusMessage,
                                   followUpPrompt, conversation>>
    /\ Finally
    /\ UNCHANGED <<baseRecipes, customRecipes, appPantry, appPreferences, apiKey>>

\* the API key field's onChange
EditApiKey ==
    /\ \E key \in KeyChoices : key # apiKey /\ apiKey' = key
    /\ UNCHANGED <<baseRecipes, customRecipes, appPantry, appPreferences, followUpPrompt,
                   generatedRecipes, selectedRecipeId, statusMessage, errorMessage,
                   isGenerating, conversation, inflight, httpRequests, idsIssued>>

\* the follow-up field's onChange
EditFollowUp ==
    /\ \E text \in FollowUpChoices : text # followUpPrompt /\ followUpPrompt' = text
    /\ UNCHANGED <<baseRecipes, customRecipes, appPantry, appPreferences, apiKey,
                   generatedRecipes, selectedRecipeId, statusMessage, errorMessage,
                   isGenerating, conversation, inflight, httpRequests, idsIssued>>

\* normalizeRecipeForStorage, on the fields a recipe of the model has
normalizeRecipeForStorage(recipe) ==
    [recipe EXCEPT
        !.cuisine = IF Trim(recipe.cuisine) = <<>> THEN <<"F","u","s","i","o","n">>
                    ELSE Trim(recipe.cuisine),
        !.cookTimeMinutes = Max(5, IF recipe.cookTimeMinutes = 0 THEN 30
                                   ELSE recipe.cookTimeMinutes),
        !.ingredients = IF Len(recipe.ingredients) > 0 THEN recipe.ingredients
                        ELSE <<Ingredient(Water, 500, "ml")>>]

\* how many recipes of a list carry an edited ingredient, and how many were
\* loaded from the cookbook
EditedCount(list) ==
    Cardinality({i \in 1..Len(list) :
                    Len(list[i].ingredients) > 0 /\ list[i].ingredients[1].name = Kale})

LoadedCount(list) ==
    Cardinality({i \in 1..Len(list) :
                    \E n \in 1..idsIssued : list[i].id = "cookbook-load-" \o ToString(n)})

\* normalizeRecipeForStorage({ ...recipe, id: getId('cookbook-load') }), the
\* n-th id drawn being n
CookbookClone(recipe, n) ==
    normalizeRecipeForStorage([recipe EXCEPT !.id = "cookbook-load-" \o ToString(n)])

\* updateRecipe(recipeId, updater), from the name field of the first
\* ingredient of a recipe card: every recipe of the current list with the id
\* is replaced
UpdateRecipe ==
    /\ EditedCount(generatedRecipes) < MaxEdits
    /\ \E i \in 1..Len(generatedRecipes) :
          LET recipeId == generatedRecipes[i].id
              Updater(recipe) ==
                  [recipe EXCEPT !.ingredients =
                      [k \in 1..Len(recipe.ingredients) |->
                          IF k = 1 THEN [recipe.ingredients[k] EXCEPT !.name = Kale]
                          ELSE recipe.ingredients[k]]]
          IN  /\ Len(generatedRecipes[i].ingredients) > 0
              /\ generatedRecipes[i].ingredients[1].name # Kale
              /\ generatedRecipes' =
                     [j \in 1..Len(generatedRecipes) |->
                         IF generatedRecipes[j].id = recipeId
                         THEN normalizeRecipeForStorage(Updater(generatedRecipes[j]))
                         ELSE generatedRecipes[j]]
    /\ UNCHANGED <<baseRecipes, customRecipes, appPantry, appPreferences, apiKey,
                   followUpPrompt, selectedRecipeId, statusMessage, errorMessage,
                   isGenerating, conversation, inflight, httpRequests, idsIssued>>

\* loadCookbookRecipe(recipe): a copy with a new id is put in front of the
\* current list and selected
LoadCookbookRecipe ==
    /\ LoadedCount(generatedRecipes) < MaxLoads
    /\ \E i \in 1..Len(customRecipes) :
          LET clone == CookbookClone(customRecipes[i], idsIssued + 1)
          IN  /\ generatedRecipes' = ensureUniqueRecipes(<<clone>> \o generatedRecipes)
              /\ selectedRecipeId' = clone.id
              /\ statusMessage' = <<"Loaded ", customRecipes[i].id, " from cookbook.">>
    /\ idsIssued' = idsIssued + 1
    /\ UNCHANGED <<baseRecipes, customRecipes, appPantry, appPreferences, apiKey,
                   followUpPrompt, errorMessage, isGenerating, conversation, inflight,
                   httpRequests>>

\* the Select button of a recipe card
SelectRecipe ==
    /\ \E i \in 1..Len(generatedRecipes) :
          /\ generatedRecipes[i].id # selectedRecipeId
          /\ selectedRecipeId' = generatedRecipes[i].id
    /\ UNCHANGED <<baseRecipes, customRecipes, appPantry, appPreferences, apiKey,
                   followUpPrompt, generatedRecipes, statusMessage, errorMessage,
                   isGenerating, conversation, inflight, httpRequests, idsIssued>>

AppNext ==
    \/ HandleGenerateRecipes
           /\ UNCHANGED <<selVars, normVars, textVars, llmVars, fitVars, scaleVars, ownVars, swapVars, settingsVars>>
    \/ HandleRefineRecipe
           /\ UNCHANGED <<selVars, normVars, textVars, llmVars, fitVars, scaleVars, ownVars, swapVars, settingsVars>>
    \/ LlmSettles
           /\ UNCHANGED <<selVars, normVars, textVars, llmVars, fitVars, scaleVars, ownVars, swapVars, settingsVars>>
    \/ EditApiKey
           /\ UNCHANGED <<selVars, normVars, textVars, llmVars, fitVars, scaleVars, ownVars, swapVars, settingsVars>>
    \/ EditFollowUp
           /\ UNCHANGED <<selVars, normVars, textVars, llmVars, fitVars, scaleVars, ownVars, swapVars, settingsVars>>

ApplicationInit ==
    SelIdle /\ NormIdle /\ TextIdle /\ LlmIdle /\ FitIdle /\ ScaleIdle /\ OwnIdle /\ AppInit /\ SwapIdle /\ SettingsIdle

SpecApp == ApplicationInit /\ [][AppNext]_vars

\* C15: with an API key that is empty or only whitespace, pressing Generate
\* issues no HTTP request and sets the live list to the offline selection from
\* the base and cookbook recipes; pressing Refine issues no HTTP request,
\* leaves the live list as it is and sets an error message.
C15_NoKeyStaysOffline ==
    [][ /\ (HandleGenerateRecipes /\ Trim(apiKey) = <<>>) =>
               /\ httpRequests' = httpRequests
               /\ inflight' = NoneInFlight
               /\ generatedRecipes' =
                      generateRecipeOptions(baseRecipes \o customRecipes, appPantry,
                                            appPreferences)
        /\ (HandleRefineRecipe /\ Trim(apiKey) = <<>>) =>
               /\ httpRequests' = httpRequests
               /\ inflight' = NoneInFlight
               /\ generatedRecipes' = generatedRecipes
               /\ errorMessage' # <<>> ]_vars

\* Generate was pressed with a whitespace key: the offline selection is shown
C15_Witness ==
    /\ apiKey = <<" ", "\n">>
    /\ statusMessage = OfflineSummary
    /\ generatedRecipes # <<>>
    /\ httpRequests = 0

\* Refine was pressed, with an instruction, after the key had been removed
C15_WitnessRefine ==
    /\ Trim(apiKey) = <<>>
    /\ errorMessage = AddKeyPrompt
    /\ httpRequests > 0

(***************************************************************************)
(* The order and the size of the selection, stated on the corpus, the      *)
(* pantry and the preferences of a call of generateRecipeOptions.          *)
(***************************************************************************)
Elements(seq) == {seq[i] : i \in 1..Len(seq)}

ScoreOf(recipe) == scoreRecipe(recipe, pantryItems, preferences).score

IsStrict(recipe) == scoreRecipe(recipe, pantryItems, preferences).strictMatch

SafeRecipes == {recipes[i] : i \in {k \in 1..Len(recipes) : ~ ContainsAvoided(recipes[k])}}

StrictRecipes == {recipe \in SafeRecipes : IsStrict(recipe)}

\* the call ends in the small-pool fallback: fewer than 3 strict matches, and
\* fewer than 3 entries once every id not among them has been added once
SmallPoolFallback ==
    LET strictIds == {recipe.id : recipe \in StrictRecipes}
        otherIds  == {recipe.id : recipe \in SafeRecipes} \ strictIds
    IN  StrictCount < 3 /\ StrictCount + Cardinality(otherIds) < 3

BestFirst(list) == \A i, j \in 1..Len(list) : i < j => ScoreOf(list[i]) >= ScoreOf(list[j])

\* C16: a result that is not the small-pool fallback is ordered best-first,
\* each recipe scoring at least as high as every recipe after it, also when
\* strict matches are followed by backfilled recipes; the small-pool fallback
\* returns the allergen-safe recipes in the order of the corpus.
C16_BestFirstOrInputOrder ==
    options.returned =>
        IF SmallPoolFallback
        THEN options.value = Slice0(SelectSeq(recipes, LAMBDA r : ~ ContainsAvoided(r)), 3)
        ELSE BestFirst(options.value)

\* a strict match is followed by a backfilled recipe with a higher score
StrictBeforeBetterBackfill ==
    /\ options.returned /\ ~ SmallPoolFallback
    /\ \E i, j \in 1..Len(options.value) :
           /\ i < j
           /\ IsStrict(options.value[i]) /\ ~ IsStrict(options.value[j])
           /\ ScoreOf(options.value[i]) < ScoreOf(options.value[j])

\* the small-pool fallback has returned two recipes in corpus order, the
\* second scoring higher than the first
FallbackInInputOrder ==
    /\ options.returned /\ SmallPoolFallback
    /\ options.value = Slice0(SelectSeq(recipes, LAMBDA r : ~ ContainsAvoided(r)), 3)
    /\ Len(options.value) = 2
    /\ ScoreOf(options.value[1]) < ScoreOf(options.value[2])

\* C17: with at least 3 strict matches among the allergen-safe recipes the
\* result is the min(6, n) highest-scoring strict matches, in descending order
\* of score, and holds no recipe that is not a strict match.
C17_TopStrictMatches ==
    (options.returned /\ StrictCount >= 3) =>
        /\ Len(options.value) = Min(6, StrictCount)
        /\ Elements(options.value) \subseteq StrictRecipes
        /\ Cardinality(Elements(options.value)) = Len(options.value)
        /\ BestFirst(options.value)
        /\ \A left \in StrictRecipes \ Elements(options.value) :
               \A i \in 1..Len(options.value) : ScoreOf(options.value[i]) >= ScoreOf(left)

\* more than 6 strict matches, cut to 6, while a recipe that is no strict
\* match outscores a returned one
C17_Witness ==
    /\ options.returned /\ StrictCount > 6 /\ Len(options.value) = 6
    /\ \E other \in SafeRecipes \ StrictRecipes :
           \E i \in 1..Len(options.value) : ScoreOf(other) > ScoreOf(options.value[i])

\* C18: with fewer than 3 strict matches the result holds exactly min(3, p)
\* recipes, p the number of allergen-safe recipes: the backfill stops at 3.
C18_BackfillStopsAtThree ==
    (options.returned /\ StrictCount < 3) =>
        Len(options.value) = Min(3, SafeCount)

\* fewer than 3 strict matches and 6 recipes returned
BackfilledToSix ==
    options.returned /\ StrictCount < 3 /\ Len(options.value) = 6

\* C19: the result never holds two recipes with the same id, whatever the
\* corpus and whichever branch produced it.
C19_NoDuplicateIds ==
    options.returned => DistinctIds(options.value)

\* both recipes with the id r2 are returned among the strict matches
DuplicateAmongStrict ==
    /\ options.returned /\ StrictCount >= 3
    /\ ~ DistinctIds(options.value)

\* the four checks of a strict match, stated on the recipe and the
\* preferences; texts are compared as normaliseText leaves them
TimeFits(recipe) == recipe.cookTimeMinutes <= preferences.maxCookTime

CuisineFits(recipe) ==
    \/ Trim(preferences.cuisine) = <<>>
    \/ LET wanted == normaliseText(preferences.cuisine)
           given  == normaliseText(recipe.cuisine)
       IN  \E k \in 0..(Len(given) - Len(wanted)) :
               \A i \in 1..Len(wanted) : given[k + i] = wanted[i]

DietFits(recipe) ==
    \A tag \in Elements(preferences.dietary) :
        \/ tag \in Elements(recipe.dietaryTags)
        \/ tag = "vegetarian" /\ "vegan" \in Elements(recipe.dietaryTags)

EquipmentFits(recipe) ==
    \/ preferences.equipment = <<>>
    \/ Elements(recipe.equipment) \subseteq Elements(preferences.equipment)

\* C20: strictMatch is true exactly when the four checks hold: the cook time
\* is within the maximum; the cuisine preference is blank or occurs in the
\* recipe's cuisine; every requested dietary tag is carried, vegetarian also
\* by a vegan recipe but vegan not by a vegetarian one; and the equipment
\* list is empty or holds everything the recipe requires.
C20_StrictIffFourChecks ==
    \A i \in 1..Len(recipes) :
        scoreRecipe(recipes[i], pantryItems, preferences).strictMatch
            <=> /\ TimeFits(recipes[i])
                /\ CuisineFits(recipes[i])
                /\ DietFits(recipes[i])
                /\ EquipmentFits(recipes[i])

\* vegan is requested: a vegetarian recipe that passes the other three checks
\* is no strict match, and a vegan one that passes them is
C20_Witness ==
    /\ options.returned
    /\ "vegan" \in Elements(preferences.dietary)
    /\ \E i, j \in 1..Len(recipes) :
           /\ "vegetarian" \in Elements(recipes[i].dietaryTags)
           /\ TimeFits(recipes[i]) /\ CuisineFits(recipes[i]) /\ EquipmentFits(recipes[i])
           /\ ~ IsStrict(recipes[i])
           /\ "vegan" \in Elements(recipes[j].dietaryTags)
           /\ IsStrict(recipes[j])

\* vegetarian is requested and a recipe tagged vegan only is a strict match
C20_WitnessVeganForVegetarian ==
    /\ options.returned
    /\ "vegetarian" \in Elements(preferences.dietary)
    /\ \E i \in 1..Len(recipes) :
           /\ Elements(recipes[i].dietaryTags) = {"vegan"}
           /\ IsStrict(recipes[i])

(***************************************************************************)
(* Swap suggestions.  A suggestion is a string; the keys of the swap table *)
(* and the ingredient names are texts, compared character by character.    *)
(* A Set is held as the sequence of its members in insertion order.        *)
(***************************************************************************)
swapDictionary ==
    <<
       [key |-> <<"y","o","g","u","r","t">>,
        suggestion |-> "Swap yogurt for creme fraiche, or coconut yogurt for dairy-free."],
       [key |-> <<"y","o","g","h","u","r","t">>,
        suggestion |-> "Swap yoghurt for creme fraiche, or coconut yoghurt for dairy-free."],
       [key |-> <<"c","r","e","m","e"," ","f","r","a","i","c","h","e">>,
        suggestion |-> "Swap creme fraiche for Greek yogurt or oat creme for dairy-free."],
       [key |-> <<"m","i","l","k">>,
        suggestion |-> "Swap milk for oat milk or soy milk 1:1."],
       [key |-> <<"b","u","t","t","e","r">>,
        suggestion |-> "Swap butter for olive oil or plant-based baking block."],
       [key |-> <<"c","r","e","a","m">>,
        suggestion |-> "Swap cream for creme fraiche, or oat cream for dairy-free."],
       [key |-> <<"e","g","g">>,
        suggestion |-> "Swap each egg for 1 tbsp ground flaxseed plus 3 tbsp water in binding recipes."],
       [key |-> <<"e","g","g","s">>,
        suggestion |-> "Swap eggs for flaxseed gel when binding is needed."],
       [key |-> <<"c","h","e","d","d","a","r">>,
        suggestion |-> "Swap cheddar for a mature dairy-free cheese alternative."],
       [key |-> <<"p","a","r","m","e","s","a","n">>,
        suggestion |-> "Swap parmesan for nutritional yeast plus a pinch of salt."],
       [key |-> <<"t","o","f","u">>,
        suggestion |-> "Swap tofu for chickpeas in stews and curries."],
       [key |-> <<"c","h","i","c","k","p","e","a","s">>,
        suggestion |-> "Swap chickpeas for cannellini beans or butter beans."],
       [key |-> <<"f","l","o","u","r">>,
        suggestion |-> "Swap plain flour for a gluten-free flour blend."],
       [key |-> <<"p","a","s","t","a">>,
        suggestion |-> "Swap wheat pasta for gluten-free pasta made with maize and rice."]
    >>

VeganHint == "For creamy sauces, use oat cream or blended cashews instead of dairy."

MissingHint == "Missing an ingredient? Try a same-family swap (bean for bean, herb for herb)."

\* Set.prototype.add
SetAdd(members, x) == IF Includes(members, x) THEN members ELSE Append(members, x)

\* new Set(list), and the adding of a list of values to a Set
RECURSIVE SetAddAll(_, _)
SetAddAll(members, list) ==
    IF list = <<>> THEN members
    ELSE SetAddAll(SetAdd(members, Head(list)), Tail(list))

\* the suggestions of the table entries whose key the name includes, in table order
TableSuggestions(name) ==
    LET Hit(entry) == StrIncludes(name, entry.key)
        hits       == SelectSeq(swapDictionary, Hit)
    IN  [i \in 1..Len(hits) |-> hits[i].suggestion]

\* recipe.ingredients.forEach(...)
RECURSIVE AddIngredientSwaps(_, _)
AddIngredientSwaps(suggestions, ingredients) ==
    IF ingredients = <<>> THEN suggestions
    ELSE AddIngredientSwaps(
             SetAddAll(suggestions, TableSuggestions(normaliseText(Head(ingredients).name))),
             Tail(ingredients))

\* the suggestions buildSwapSuggestions has collected before it slices them
CollectedSwaps(recipe, dietary, pantry) ==
    LET declared  == SetAddAll(<<>>, recipe.swapSuggestions)
        fromTable == AddIngredientSwaps(declared, recipe.ingredients)
        withVegan == IF Includes(dietary, "vegan") THEN SetAdd(fromTable, VeganHint)
                     ELSE fromTable
        missing   == missingIngredients(recipe, pantry)
    IN  IF Len(missing) > 0 THEN SetAdd(withVegan, MissingHint) ELSE withVegan

\* a faulty variant: the collected suggestions are not cut to 6
BuildSwapsUncut(recipe, dietary, pantry) == CollectedSwaps(recipe, dietary, pantry)

buildSwapSuggestions(recipe, dietary, pantry) ==
    Slice0(CollectedSwaps(recipe, dietary, pantry), 6)

MaxSwapIngredients == 2

Buttermilk == <<"b","u","t","t","e","r","m","i","l","k">>

Tofu == <<"T","o","f","u">>

CremeFraiche == <<"C","r","e","m","e","-","f","r","a","i","c","h","e",","," ","o","r"," ","c","r","e","a","m">>

SwapNames == { Eggs, Buttermilk, OatMilk, Rice, Tofu, CremeFraiche }

DeclaredSwaps ==
    { <<>>,
      <<"Use lime instead of lemon.">>,
      <<"Use lime instead of lemon.", "Use lime instead of lemon.">>,
      <<"Swap milk for oat milk or soy milk 1:1.", "Use lime instead of lemon.", VeganHint>>,
      <<"a", "b", "c", "d", "e", "f", "g">> }

SwapInit ==
    /\ \E names \in UNION {[1..n -> SwapNames] : n \in 0..MaxSwapIngredients},
          declared \in DeclaredSwaps :
           swapRecipe = [ingredients |-> [i \in 1..Len(names) |-> Ingredient(names[i], i, "g")],
                         swapSuggestions |-> declared]
    /\ swapDietary \in { <<>>, <<"vegan">>, <<"vegetarian", "gluten-free">> }
    /\ swapPantry \in { <<>>, <<Egg, Rice>>,
                        <<Eggs, Buttermilk, OatMilk, Rice, Tofu, CremeFraiche>> }
    /\ swapResult = NotReturned

BuildSwapSuggestions ==
    /\ ~ swapResult.returned
    /\ swapResult' = Returned(buildSwapSuggestions(swapRecipe, swapDietary, swapPantry))
    /\ UNCHANGED <<swapRecipe, swapDietary, swapPantry>>

SwapNext ==
    BuildSwapSuggestions
        /\ UNCHANGED <<selVars, normVars, textVars, llmVars, fitVars, scaleVars, ownVars, appVars, settingsVars>>

SwapsInit ==
    SelIdle /\ NormIdle /\ TextIdle /\ LlmIdle /\ FitIdle /\ ScaleIdle /\ OwnIdle /\ AppIdle /\ SettingsIdle
        /\ SwapInit

SpecSwaps == SwapsInit /\ [][SwapNext]_vars

\* the entries of a sequence that no earlier entry equals, in order
FirstOccurrences(seq) ==
    LET IsFirst(i) == \A j \in 1..(i - 1) : seq[j] # seq[i]
        firsts     == SelectSeq([i \in 1..Len(seq) |-> i], IsFirst)
    IN  [k \in 1..Len(firsts) |-> seq[firsts[k]]]

\* the table suggestions whose key occurs in the normalised name, in table order
SuggestionsFor(name) ==
    LET given   == normaliseText(name)
        Occurs(key) == \E k \in 0..(Len(given) - Len(key)) :
                           \A i \in 1..Len(key) : given[k + i] = key[i]
        hits    == SelectSeq([i \in 1..Len(swapDictionary) |-> i],
                             LAMBDA i : Occurs(swapDictionary[i].key))
    IN  [k \in 1..Len(hits) |-> swapDictionary[hits[k]].suggestion]

RECURSIVE Concatenated(_)
Concatenated(lists) ==
    IF lists = <<>> THEN <<>> ELSE Head(lists) \o Concatenated(Tail(lists))

\* the candidates in the order of the claim: declared swaps, table suggestions
\* by ingredient and table order, the vegan hint, the missing-ingredient hint
SwapCandidates ==
    swapRecipe.swapSuggestions
    \o Concatenated([i \in 1..Len(swapRecipe.ingredients) |->
                        SuggestionsFor(swapRecipe.ingredients[i].name)])
    \o (IF \E i \in 1..Len(swapDietary) : swapDietary[i] = "vegan" THEN <<VeganHint>> ELSE <<>>)
    \o (IF \E i \in 1..Len(swapRecipe.ingredients) :
               ~ hasIngredient(swapRecipe.ingredients[i].name, swapPantry)
        THEN <<MissingHint>> ELSE <<>>)

\* C21: buildSwapSuggestions returns at most 6 entries, no two equal: the
\* first 6 distinct entries of the declared swaps, then the table suggestions
\* whose key occurs in a normalised ingredient name (ingredient order, then
\* table order), then the vegan hint iff vegan is requested, then the generic
\* hint iff an ingredient is missing from the pantry.
C21_FirstSixDistinct ==
    swapResult.returned =>
        /\ Len(swapResult.value) <= 6
        /\ \A i, j \in 1..Len(swapResult.value) :
               swapResult.value[i] = swapResult.value[j] => i = j
        /\ swapResult.value = SubSeq(FirstOccurrences(SwapCandidates), 1,
                                     Min(6, Len(FirstOccurrences(SwapCandidates))))

\* more than 6 distinct candidates, one of them offered twice: 6 are returned
C21_Witness ==
    /\ swapResult.returned
    /\ Len(FirstOccurrences(SwapCandidates)) > 6
    /\ Len(SwapCandidates) > Len(FirstOccurrences(SwapCandidates))
    /\ Len(swapResult.value) = 6
    /\ Len(swapRecipe.ingredients) > 0

(***************************************************************************)
(* The fields of a normalized recipe, stated on the raw recipe.            *)
(***************************************************************************)
\* a raw text field that is missing, no string, empty or only white space
IsBlankField(x) == x.t # "string" \/ \A i \in 1..Len(x.v) : x.v[i] \in Whitespace

TitleFallback == <<"A","I"," ","R","e","c","i","p","e"," ">> \o Decimal(rawIndex + 1)

\* C22: title, description and cuisine are trimmed, and a raw value that is
\* missing, no string, empty or only white space is replaced by the fallback
\* (AI Recipe {index+1}, AI-generated recipe., Fusion): no normalized recipe
\* has an empty title, description or cuisine.
C22_BlankTextBecomesFallback ==
    (normalized.returned /\ normalized.value.ok) =>
        LET recipe == normalized.value.value
        IN  /\ recipe.title # <<>> /\ recipe.description # <<>> /\ recipe.cuisine # <<>>
            /\ IsBlankField(Get(rawRecipe, "title")) => recipe.title = TitleFallback
            /\ IsBlankField(Get(rawRecipe, "description"))
                   => recipe.description = <<"AI-generated recipe.">>
            /\ IsBlankField(Get(rawRecipe, "cuisine"))
                   => recipe.cuisine = <<"F","u","s","i","o","n">>

\* a title of one space has been normalized to the empty title
BlankTitleKeptEmpty ==
    /\ normalized.returned /\ normalized.value.ok
    /\ Get(rawRecipe, "title") = JStr(<<" ">>)
    /\ normalized.value.value.title = <<>>

\* a title that is missing or no string is replaced by the fallback
TextFallbackForNonStrings ==
    (normalized.returned /\ normalized.value.ok /\ Get(rawRecipe, "title").t # "string") =>
        /\ normalized.value.value.title = TitleFallback
        /\ normalized.value.value.cuisine = <<"F","u","s","i","o","n">>

\* the raw equipment values that are in the allowed set, in order
AllowedEquipment(x) ==
    IF x.t = "array"
    THEN LET kept == SelectSeq(x.v, LAMBDA item : item.t = "string" /\ item.v \in equipmentValues)
         IN  [i \in 1..Len(kept) |-> kept[i].v]
    ELSE <<>>

\* C23: enum values outside the allowed set are dropped from the list-valued
\* fields, and the equipment list is [hob] whenever it is empty after
\* filtering: a raw value that is missing, no array, an empty array or an
\* array of values outside the set gives [hob], so the list is never empty.
C23_EquipmentNeverEmpty ==
    (normalized.returned /\ normalized.value.ok) =>
        LET recipe  == normalized.value.value
            allowed == AllowedEquipment(Get(rawRecipe, "equipment"))
        IN  /\ recipe.equipment # <<>>
            /\ recipe.equipment = IF allowed = <<>> THEN << <<"h","o","b">> >> ELSE allowed
            /\ \A i \in 1..Len(recipe.dietaryTags) : recipe.dietaryTags[i] \in DIETARY_OPTIONS
            /\ \A i \in 1..Len(recipe.allergens) : recipe.allergens[i] \in ALLERGEN_OPTIONS

\* an array holding only values outside the set has given the empty list
EquipmentFilteredToNothing ==
    /\ normalized.returned /\ normalized.value.ok
    /\ Get(rawRecipe, "equipment").t = "array"
    /\ Len(Get(rawRecipe, "equipment").v) = 2
    /\ normalized.value.value.equipment = <<>>

\* a raw equipment value that is no array gives [hob]
EquipmentDefaultForNonArrays ==
    (normalized.returned /\ normalized.value.ok /\ Get(rawRecipe, "equipment").t # "array") =>
        normalized.value.value.equipment = << <<"h","o","b">> >>

\* a raw value that is a string of decimal digits, with or without a sign and
\* surrounding white space
IsIntegerText(x) ==
    /\ x.t = "string"
    /\ LET t == Trim(x.v)
           digits == IF t # <<>> /\ Head(t) \in {"-", "+"} THEN Tail(t) ELSE t
       IN  digits # <<>> /\ \A i \in 1..Len(digits) : digits[i] \in Digits

IsBlankText(x) == x.t = "string" /\ \A i \in 1..Len(x.v) : x.v[i] \in Whitespace

\* the number a raw value stands for: a finite number itself, a numeric
\* string its value, anything else the default
NumberOr(x, default) ==
    IF x.t = "number" /\ x.fin THEN x.v
    ELSE IF IsIntegerText(x) THEN ToNumber(x.v).v
    ELSE default

C24_WitnessFloored ==
    /\ normalized.returned /\ normalized.value.ok
    /\ Get(rawRecipe, "cookTimeMinutes") = JNum(0)
    /\ Get(rawRecipe, "servings") = JNum(-2)
    /\ normalized.value.value.cookTimeMinutes = 5
    /\ normalized.value.value.servings = 1

\* an empty string and a string of one space count as the number 0
C24_WitnessBlankStrings ==
    /\ normalized.returned /\ normalized.value.ok
    /\ Get(rawRecipe, "cookTimeMinutes") = JStr(<<>>)
    /\ Get(rawRecipe, "servings") = JStr(<<" ">>)
    /\ normalized.value.value.cookTimeMinutes = 5
    /\ normalized.value.value.servings = 1

(***************************************************************************)
(* The errors of a call whose structured attempt failed.                   *)
(***************************************************************************)
\* the payload holds at least one recipe and every recipe of it normalizes
HasUsableRecipes(parsed) ==
    /\ parsed.t \notin {"null", "undefined"}
    /\ Get(parsed, "recipes").t = "array"
    /\ Get(parsed, "recipes").v # <<>>
    /\ \A i \in 1..Len(Get(parsed, "recipes").v) :
          Get(parsed, "recipes").v[i].t \notin {"null", "undefined"}

\* the message of a transport failure holds the status code and at most the
\* first 350 characters of the body
IsTransportMessage(message, response) ==
    \E n \in 0..350 :
        /\ n <= Len(response.body)
        /\ message = <<"LLM request failed (">> \o Decimal(response.status) \o <<"): ">>
                         \o SubSeq(response.body, 1, n)
        /\ n < 350 => n = Len(response.body)

BothAttemptsSettled == pc = "done" /\ Len(requests) = 2

\* when both attempts fail the call rejects with the error of the fallback
\* attempt and yields no payload and no recipes; the message of a fallback
\* attempt answered with a status outside 200..299 is the transport message
FallbackErrorRejects ==
    BothAttemptsSettled =>
        LET response == requests[2].response.value
            second   == Attempt(response)
        IN  /\ ~ Attempt(requests[1].response.value).ok
            /\ ~ second.ok =>
                  /\ outcome = Returned(second)
                  /\ payload = NotReturned
            /\ (response.kind = "response" /\ ~ response.ok) =>
                  /\ ~ second.ok
                  /\ IsTransportMessage(second.error, response)

C25_WitnessFallbackSucceeds ==
    /\ BothAttemptsSettled
    /\ requests[1].response.value = HttpResponse(500, <<"B", "a", "d">>)
    /\ payload.returned /\ HasUsableRecipes(payload.value)
    /\ outcome.value.ok

\* the fallback attempt succeeded with a payload without recipes: the call
\* has rejected
FallbackPayloadWithoutRecipes ==
    /\ BothAttemptsSettled
    /\ Attempt(requests[2].response.value).ok
    /\ payload.returned /\ payload.value.t = "object"
    /\ ~ outcome.value.ok

(***************************************************************************)
(* The live list under refinement, edits in place, loads from the cookbook *)
(* and the Select button, which all stay enabled while a call is in        *)
(* flight.                                                                 *)
(***************************************************************************)
\* the app with a key and a follow-up request typed: as it starts, as it is
\* after Generate was pressed before the key was typed, and as it is when
\* after that the cookbook recipe was loaded twice and generations with the
\* key failed, one turn short of the conversation bound
LiveInit ==
    /\ customRecipes = <<PoolRecipe(9)>>
    /\ appPantry = << <<"R","i","c","e","!">>, <<" ","e","g","g"," ">> >>
    /\ appPreferences = [ servings |-> 4, maxCookTime |-> 45, cuisine |-> <<>>,
                          dietary |-> <<>>, allergensToAvoid |-> <<>>, equipment |-> <<>> ]
    /\ apiKey = <<" ", "k">>
    /\ followUpPrompt = <<"s", "p", "i", "c", "e">>
    /\ \/ /\ baseRecipes = Corpus({1, 2})
          /\ generatedRecipes = <<>>
          /\ selectedRecipeId = NullId
          /\ statusMessage = <<>>
          /\ conversation = <<>>
          /\ idsIssued = 0
          /\ errorMessage = <<>>
          /\ httpRequests = 0
       \/ /\ baseRecipes = Corpus({1, 2})
          /\ generatedRecipes =
                 generateRecipeOptions(baseRecipes \o customRecipes, appPantry, appPreferences)
          /\ selectedRecipeId = generatedRecipes[1].id
          /\ statusMessage = OfflineSummary
          /\ conversation = <<Turn("assistant", OfflineTurn), Turn("user", <<"goal">>)>>
          /\ idsIssued = 0
          /\ errorMessage = <<>>
          /\ httpRequests = 0
       \/ /\ baseRecipes = Corpus({1, 2, 4, 5, 6, 7})
          /\ generatedRecipes =
                 <<CookbookClone(customRecipes[1], 2), CookbookClone(customRecipes[1], 1)>>
                     \o generateRecipeOptions(baseRecipes \o customRecipes, appPantry,
                                              appPreferences)
          /\ selectedRecipeId = generatedRecipes[1].id
          /\ statusMessage = <<"Loaded ", "r2", " from cookbook.">>
          /\ conversation =
                 [i \in 1..(MaxTurns - 3) |-> Turn("user", <<"goal">>)]
                     \o <<Turn("assistant", OfflineTurn), Turn("user", <<"goal">>)>>
          /\ idsIssued = 2
          /\ errorMessage = NoRecipesError
          /\ httpRequests = MaxTurns - 3
    /\ isGenerating = FALSE
    /\ inflight = NoneInFlight

LiveListInit ==
    SelIdle /\ NormIdle /\ TextIdle /\ LlmIdle /\ FitIdle /\ ScaleIdle /\ OwnIdle /\ LiveInit /\ SwapIdle /\ SettingsIdle

LiveListNext ==
    \/ HandleRefineRecipe
           /\ UNCHANGED <<selVars, normVars, textVars, llmVars, fitVars, scaleVars, ownVars, swapVars, settingsVars>>
    \/ LlmSettles
           /\ UNCHANGED <<selVars, normVars, textVars, llmVars, fitVars, scaleVars, ownVars, swapVars, settingsVars>>
    \/ UpdateRecipe
           /\ UNCHANGED <<selVars, normVars, textVars, llmVars, fitVars, scaleVars, ownVars, swapVars, settingsVars>>
    \/ LoadCookbookRecipe
           /\ UNCHANGED <<selVars, normVars, textVars, llmVars, fitVars, scaleVars, ownVars, swapVars, settingsVars>>
    \/ SelectRecipe
           /\ UNCHANGED <<selVars, normVars, textVars, llmVars, fitVars, scaleVars, ownVars, swapVars, settingsVars>>

SpecLiveList == LiveListInit /\ [][LiveListNext]_vars

(***************************************************************************)
(* The busy flag, the error message and the live list around a call.       *)
(***************************************************************************)
\* the HTTP exchange of a call in flight ends, and the handler resumes
SpecAppFair == ApplicationInit /\ [][AppNext]_vars /\ WF_appVars(LlmSettles)

\* the Generate and the Refine button are not disabled
GenerateEnabled == ~ isGenerating
RefineEnabled == ~ isGenerating /\ SelectedIndex(generatedRecipes, selectedRecipeId) # 0

\* a call of generateRecipesWithLlm settles with an error, with recipes
SettlesWithError == LlmSettles /\ idsIssued' = idsIssued
SettlesWithRecipes == LlmSettles /\ idsIssued' > idsIssued

\* C26: isGenerating is true from the start of a generation or refinement
\* until the call settles and is false again from then on, whether the call
\* succeeded, failed or was answered offline; if HTTP exchanges end, the
\* Generate and the Refine button are enabled again after every press.
C26_BusyUntilSettled ==
    /\ [](isGenerating <=> inflight.kind # "none")
    /\ isGenerating ~> GenerateEnabled
    /\ (inflight.kind = "refine") ~> RefineEnabled

\* a call has failed and the buttons are enabled again
C26_Witness ==
    /\ httpRequests > 0
    /\ errorMessage \in {SettleError, NoRecipesError}
    /\ GenerateEnabled /\ RefineEnabled

\* C27: a generation or refinement that fails leaves the live list and the
\* selected id as they were and sets errorMessage to the message of the
\* failure; a generation that succeeds clears errorMessage.
C27_FailureKeepsList ==
    [][ /\ SettlesWithError =>
               /\ generatedRecipes' = generatedRecipes
               /\ selectedRecipeId' = selectedRecipeId
               /\ inflight.kind = "refine" =>
                      /\ generatedRecipes' = inflight.generatedRecipes
                      /\ selectedRecipeId' = inflight.selectedRecipe.id
               /\ errorMessage' =
                      IF httpRequests' > httpRequests THEN SettleError ELSE NoRecipesError
        /\ (SettlesWithRecipes \/ (HandleGenerateRecipes /\ ~ isGenerating')) =>
               errorMessage' = <<>> ]_vars

\* a refinement has failed after a generation that succeeded: the recipes of
\* the generation are still shown
C27_Witness ==
    /\ errorMessage = NoRecipesError
    /\ ~ isGenerating
    /\ generatedRecipes # <<>> /\ generatedRecipes[1] = AiRecipe(1)
    /\ selectedRecipeId = generatedRecipes[1].id
    /\ Len(conversation) >= 3 /\ conversation[1].role = "user"
    /\ conversation[1].text # <<"goal">>

\* the offline selection is shown after Refine had set an error message
C27_WitnessCleared ==
    /\ errorMessage = <<>>
    /\ statusMessage = OfflineSummary
    /\ httpRequests > 0

DistinctRecipeIds(list) ==
    \A i, j \in 1..Len(list) : list[i].id = list[j].id => i = j

SelectedIsLive ==
    selectedRecipeId = NullId \/ \E i \in 1..Len(generatedRecipes) :
                                     generatedRecipes[i].id = selectedRecipeId

\* C28: after a refinement that succeeds the live list holds at most 8
\* recipes, with pairwise distinct ids, without the refined recipe, the
\* recipes of the model first, and the first recipe is selected; in every
\* state the selected id is null or the id of a recipe of the live list.
C28_RefinedListShape ==
    /\ []SelectedIsLive
    /\ [][ (SettlesWithRecipes /\ inflight.kind = "refine") =>
              LET returned == idsIssued' - idsIssued
              IN  /\ Len(generatedRecipes') <= 8
                  /\ DistinctRecipeIds(generatedRecipes')
                  /\ \A i \in 1..Len(generatedRecipes') :
                        generatedRecipes'[i].id # inflight.selectedRecipe.id
                  /\ Len(generatedRecipes') >= returned
                  /\ \A i \in 1..returned : generatedRecipes'[i] = AiRecipe(idsIssued + i)
                  /\ selectedRecipeId' = generatedRecipes'[1].id ]_vars

\* a refinement of r1 has succeeded: two recipes of the model, then the
\* recipe with the id r2 that was listed twice
C28_Witness ==
    /\ followUpPrompt = <<>>
    /\ Len(generatedRecipes) = 3
    /\ generatedRecipes[1] = AiRecipe(1) /\ generatedRecipes[2] = AiRecipe(2)
    /\ generatedRecipes[3].id = "r2"
    /\ selectedRecipeId = "ai-1"

\* a refinement has returned two recipes for one of eight: the ninth recipe
\* of the merged list is cut off
RefinedListCutToEight ==
    /\ statusMessage = AiSummary
    /\ Len(generatedRecipes) = 8
    /\ generatedRecipes[1] = AiRecipe(3) /\ generatedRecipes[2] = AiRecipe(4)
    /\ \A i \in 1..8 : generatedRecipes[i].id # "cookbook-load-2"
    /\ \E i \in 1..8 : generatedRecipes[i].id = "cookbook-load-1"

\* C29: a change made to the live list while a refinement is in flight, an
\* edit in place or a recipe loaded from the cookbook, is still there after
\* the refinement succeeds: the merged list is built from the list as it is
\* when the response arrives.
C29_MergeUsesCurrentList ==
    [][ (SettlesWithRecipes /\ inflight.kind = "refine") =>
            LET NotRefined(recipe) == recipe.id # inflight.selectedRecipe.id
                replacement == [i \in 1..(idsIssued' - idsIssued) |-> AiRecipe(idsIssued + i)]
            IN  generatedRecipes' =
                    Slice0(ensureUniqueRecipes(
                               replacement \o SelectSeq(generatedRecipes, NotRefined)), 8) ]_vars

\* a recipe was loaded from the cookbook while the refinement is in flight
LoadedWhileInFlight ==
    /\ inflight.kind = "refine"
    /\ LoadedCount(generatedRecipes) > LoadedCount(inflight.generatedRecipes)

\* a recipe was edited while the refinement of another recipe is in flight
EditedWhileInFlight ==
    /\ inflight.kind = "refine"
    /\ \E i \in 1..Len(generatedRecipes) :
          /\ generatedRecipes[i].id # inflight.selectedRecipe.id
          /\ generatedRecipes[i] # inflight.generatedRecipes[i]
          /\ generatedRecipes[i].id = inflight.generatedRecipes[i].id

(***************************************************************************)
(* The AI settings and their item in localStorage.  The item holds what    *)
(* JSON.stringify wrote, read back by JSON.parse as the same record of     *)
(* strings and a boolean; setItem either stores the value or throws, which *)
(* writeStorage ignores.  The effect that persists the settings runs       *)
(* after the render of every change of them, and after the first render.   *)
(***************************************************************************)
Item(value) == [present |-> TRUE, value |-> value]

\* readStorage(key, fallback), on the item of the key
readStorage(item, fallback) == IF item.present THEN item.value ELSE fallback

\* a faulty variant: the settings are persisted as they are
PersistedWithKey(settings) == settings

\* the record the effect writes: { ...aiSettings, apiKey: rememberKey ? apiKey : '' }
Persisted(settings) ==
    [settings EXCEPT !.apiKey = IF settings.rememberKey THEN settings.apiKey ELSE <<>>]

\* writeStorage(STORAGE_KEYS.aiSettings, persisted): the item is replaced,
\* or setItem throws and the item stays
WriteStorage(settings) ==
    \/ storedAiSettings' = Item(Persisted(settings))
    \/ storedAiSettings' = storedAiSettings

\* the initial state of aiSettings
InitialAiSettings(item) ==
    LET initialAiSettings == readStorage(item, defaultAiSettings)
    IN  [initialAiSettings EXCEPT
            !.apiKey = IF initialAiSettings.rememberKey THEN initialAiSettings.apiKey
                       ELSE <<>>]

SettingsKeyChoices == { <<>>, <<" ">>, <<"s","k","-","1">>, <<"s","k","-","2">> }

ModelChoices == { "gpt-4.1-mini", "gpt-4.1" }

SettingsInit == aiSettings = defaultAiSettings /\ storedAiSettings = NoItem /\ mounted = FALSE

\* the page is opened: App is mounted and its effects run
MountApp ==
    /\ ~ mounted
    /\ mounted' = TRUE
    /\ aiSettings' = InitialAiSettings(storedAiSettings)
    /\ WriteStorage(aiSettings')

\* the API key field's onChange, and the effect
EditSettingsKey ==
    /\ mounted
    /\ \E key \in SettingsKeyChoices :
          /\ key # aiSettings.apiKey
          /\ aiSettings' = [aiSettings EXCEPT !.apiKey = key]
    /\ WriteStorage(aiSettings')
    /\ UNCHANGED mounted

\* the model field's onChange, and the effect
EditModel ==
    /\ mounted
    /\ \E model \in ModelChoices :
          /\ model # aiSettings.model
          /\ aiSettings' = [aiSettings EXCEPT !.model = model]
    /\ WriteStorage(aiSettings')
    /\ UNCHANGED mounted

\* the 'Remember API key on this device' checkbox, and the effect
ToggleRememberKey ==
    /\ mounted
    /\ aiSettings' = [aiSettings EXCEPT !.rememberKey = ~ aiSettings.rememberKey]
    /\ WriteStorage(aiSettings')
    /\ UNCHANGED mounted

\* the page is closed: the state of App is gone, the item stays
ClosePage ==
    /\ mounted
    /\ mounted' = FALSE
    /\ aiSettings' = defaultAiSettings
    /\ UNCHANGED storedAiSettings

SettingsNext ==
    \/ MountApp
           /\ UNCHANGED <<selVars, normVars, textVars, llmVars, fitVars, scaleVars, ownVars, appVars, swapVars>>
    \/ EditSettingsKey
           /\ UNCHANGED <<selVars, normVars, textVars, llmVars, fitVars, scaleVars, ownVars, appVars, swapVars>>
    \/ EditModel
           /\ UNCHANGED <<selVars, normVars, textVars, llmVars, fitVars, scaleVars, ownVars, appVars, swapVars>>
    \/ ToggleRememberKey
           /\ UNCHANGED <<selVars, normVars, textVars, llmVars, fitVars, scaleVars, ownVars, appVars, swapVars>>
    \/ ClosePage
           /\ UNCHANGED <<selVars, normVars, textVars, llmVars, fitVars, scaleVars, ownVars, appVars, swapVars>>

AiSettingsInit ==
    SelIdle /\ NormIdle /\ TextIdle /\ LlmIdle /\ FitIdle /\ ScaleIdle /\ OwnIdle /\ AppIdle /\ SwapIdle
        /\ SettingsInit

SpecSettings == AiSettingsInit /\ [][SettingsNext]_vars

\* C30: the API key is persisted only while 'remember key' is on: the record
\* of the AI settings in storage has an empty apiKey whenever its rememberKey
\* is false, every record written carries the rememberKey of the settings and
\* their key only if it is true, and at start-up the stored key is loaded
\* into the settings only if the stored rememberKey is true.
C30_KeyStoredOnlyIfRemembered ==
    /\ [](storedAiSettings.present =>
              (storedAiSettings.value.rememberKey \/ storedAiSettings.value.apiKey = <<>>))
    /\ [][storedAiSettings' # storedAiSettings =>
              /\ storedAiSettings'.present
              /\ storedAiSettings'.value.rememberKey = aiSettings'.rememberKey
              /\ storedAiSettings'.value.model = aiSettings'.model
              /\ storedAiSettings'.value.apiKey =
                     IF aiSettings'.rememberKey THEN aiSettings'.apiKey ELSE <<>>]_vars
    /\ [][MountApp =>
              /\ aiSettings'.apiKey =
                     IF storedAiSettings.present /\ storedAiSettings.value.rememberKey
                     THEN storedAiSettings.value.apiKey ELSE <<>>
              /\ aiSettings'.rememberKey =
                     (storedAiSettings.present /\ storedAiSettings.value.rememberKey)]_vars

\* a key was typed with 'remember key' off after a key had been remembered:
\* the record in storage holds no key
C30_Witness ==
    /\ mounted
    /\ aiSettings.apiKey = <<"s","k","-","2">> /\ ~ aiSettings.rememberKey
    /\ aiSettings.model = "gpt-4.1"
    /\ storedAiSettings = Item([apiKey |-> <<>>, model |-> "gpt-4.1", rememberKey |-> FALSE])

\* the page was opened again with a remembered key in storage
C30_WitnessLoaded ==
    /\ mounted
    /\ aiSettings.apiKey = <<"s","k","-","1">> /\ aiSettings.rememberKey
    /\ storedAiSettings = Item(aiSettings)

\* 'remember key' was switched off and the write failed: the settings do not
\* remember the key, the record in storage still does
StaleRememberedKey ==
    /\ mounted /\ ~ aiSettings.rememberKey
    /\ storedAiSettings.present /\ storedAiSettings.value.rememberKey
    /\ storedAiSettings.value.apiKey = <<"s","k","-","1">>

====
